---- MODULE Spec2Model ----
(***************************************************************************)
(* A model of the runtime core of pythoneda-shared-pythonlang/domain:      *)
(*   - the listener directory (pythoneda/shared/event_listener.py),        *)
(*   - the dispatch engine   (PythonEDA/application/pythoneda.py),         *)
(*   - the port registry     (pythoneda/shared/ports.py),                  *)
(*   - the invariant context (pythoneda/shared/invariants.py).             *)
(* Where the repository holds several historical snapshots of a file, the  *)
(* newest one (pythoneda/shared) is the one modelled.                      *)
(***************************************************************************)
EXTENDS Integers, Sequences, FiniteSets, TLC

Null == "null"

(***************************************************************************)
(* Bounds                                                                  *)
(***************************************************************************)
\* events a single top-level accept may produce before handlers stop producing
MaxEvents == 5
\* events one handler returns in a list
MaxReturn == 2
\* adapters mapped to one port
MaxAdapters == 2

\* entries appended to the listener directory by code outside it
MaxEdits == 1

(***************************************************************************)
(* Sequence helpers                                                        *)
(***************************************************************************)
Range(s) == {s[i] : i \in 1..Len(s)}

Contains(s, x) == \E i \in 1..Len(s) : s[i] = x

Last(s) == s[Len(s)]

\* x inserted after every element whose key is <= key[x] (a stable insertion)
InsertByKey(s, x, key) ==
    LET n == Cardinality({i \in 1..Len(s) : key[s[i]] <= key[x]})
    IN  SubSeq(s, 1, n) \o <<x>> \o SubSeq(s, n + 1, Len(s))

RECURSIVE StableSortPrefix(_, _, _)
StableSortPrefix(s, key, n) ==
    IF n = 0 THEN <<>>
    ELSE InsertByKey(StableSortPrefix(s, key, n - 1), s[n], key)

\* x inserted before every element whose key is >= key[x] (ties reversed)
InsertByKeyUnstable(s, x, key) ==
    LET n == Cardinality({i \in 1..Len(s) : key[s[i]] < key[x]})
    IN  SubSeq(s, 1, n) \o <<x>> \o SubSeq(s, n + 1, Len(s))

RECURSIVE UnstableSortPrefix(_, _, _)
UnstableSortPrefix(s, key, n) ==
    IF n = 0 THEN <<>>
    ELSE InsertByKeyUnstable(UnstableSortPrefix(s, key, n - 1), s[n], key)

UnstableSorted(s, key) == UnstableSortPrefix(s, key, Len(s))

\* Python's sorted(s, key=...): ascending and stable
Sorted(s, key) == StableSortPrefix(s, key, Len(s))

(***************************************************************************)
(* Listener units and event types                                          *)
(***************************************************************************)
EventTypes == {"E1", "E2", "E3", "E4"}

\* the event type a handler of the given type produces (an acyclic fixture)
NextType(t) ==
    CASE t = "E1" -> "E2"
      [] t = "E2" -> "E3"
      [] t = "E3" -> "E4"
      [] OTHER -> Null

\* concrete subclasses of EventListener; S is a subclass of P
Units == {"P", "S", "Q"}

Parent(c) == IF c = "S" THEN "P" ELSE "EventListener"

\* cls.mro() restricted to the listener units
Mro(c) == IF Parent(c) \in Units THEN <<c, Parent(c)>> ELSE <<c>>

\* an optional value: <<>> is None (or an absent attribute), <<v>> is v
None == <<>>

Some(v) == <<v>>

\* the priorities a unit may declare through default_priority()
DeclaredPriorities == {None, Some(1), Some(5)}

\* the class bodies a program may contain: the @listen methods of each unit,
\* in class-body order, named by the event type they listen to
Declarations ==
    { [P |-> p, S |-> s, Q |-> q] :
        p \in {<<"E1">>}, s \in {<<>>, <<"E2">>}, q \in {<<"E1", "E3">>, <<"E3">>} }

VARIABLES
    declares,               \* unit -> its own @listen methods (event types)
    declaredPriority,       \* unit -> what its own default_priority() returns, or Null
    abstract,               \* unit -> inspect.isabstract(unit)
    defined,                \* units whose class statement has run
    eventListeners,         \* _event_listeners: unit -> event types (no key = empty)
    listenersByEventClass,  \* _event_listeners_by_event_class: type -> units
    listenerMethods,        \* _event_listener_methods: unit -> type -> function
    events,                 \* events of the running accept: [type, gen, parent]
    stack,                  \* call stack of PythonEDA.accept
    invoked,                \* handler invocations of the running accept, in order
    outcome,                \* how the last top-level accept ended
    singleton,              \* Ports._singleton: None, or the mappings it holds
    values,                 \* Invariants: _threadlocal_data.values
    lastCall,               \* the latest resolution call and what it returned
    prevCall,               \* the resolution call before it
    instanceCall,           \* the latest resolution made through Ports.instance
    workerValues,           \* Invariants: values of a thread that did not construct it
    invCall,                \* the latest call on Invariants and what it returned
    flowFirstEvent,         \* Flow._first_event
    flowEvents,             \* Flow._events, the most recent first
    flowCall,               \* the latest call on the Flow and what it did
    primaryPorts,           \* PythonEDA._primaryPorts, in the order they were found
    phase,                  \* where accept_input is: idle, iterating, returned, failed
    startOrder,             \* the sorted list accept_input iterates over
    started,                \* the ports whose accept was called, in order
    running,                \* the port whose accept is awaited, or None
    finished,               \* the accept calls that ended, and how
    objects,                \* the value objects constructed so far
    eqCall,                 \* the latest comparison of two of them: == and hash
    holders,                \* the value objects with a @sensitive attribute
    reprCall,               \* the latest representation taken of one of them
    findCall,               \* the latest Flow.find_latest_event and its result
    receivers,              \* EventEmitter._receivers
    emitPhase,              \* where emit is: idle, awaiting an accept, done
    emitIdx,                \* the position the loop of emit takes next
    emitStart,              \* _receivers as it was when emit was called
    accepted                \* the receivers whose accept the running emit called

dispatchVars == <<declares, declaredPriority, abstract, defined, eventListeners,
                  listenersByEventClass, listenerMethods, events, stack,
                  invoked, outcome>>

portsVars == <<singleton, values, lastCall, prevCall>>

contextVars == <<workerValues, invCall>>

flowVars == <<flowFirstEvent, flowEvents, flowCall>>

orchestratorVars == <<primaryPorts, phase, startOrder, started, running, finished>>

objectVars == <<objects, eqCall>>

reprVars == <<holders, reprCall>>

lookupVars == <<findCall>>

emitterVars == <<receivers, emitPhase, emitIdx, emitStart, accepted>>

moreVars == <<objectVars, reprVars, lookupVars, emitterVars>>

restVars == <<instanceCall, contextVars, flowVars, orchestratorVars, moreVars>>

vars == <<dispatchVars, portsVars, restVars>>

(***************************************************************************)
(* Listener directory: pythoneda/shared/event_listener.py                  *)
(***************************************************************************)
\* a @listen function is identified by the class declaring it and its event type
Func(c, t) == <<c, t>>

\* _process_pending_event_listener without the membership test
AppendListenerAlways(lbec, c, t) == [lbec EXCEPT ![t] = @ \o <<c>>]

\* lines 230-239: cls is appended only if it is not yet listed
AppendListener(lbec, c, t) ==
    IF Contains(lbec[t], c) THEN lbec ELSE [lbec EXCEPT ![t] = @ \o <<c>>]

\* _process_pending_event_listener(cls, listener, ...) on the three registries,
\* packed as a record [el, lbec, m]
ProcessPendingEventListener(reg, c, fn) ==
    LET t == fn[2]
    IN  [ el   |-> [reg.el EXCEPT ![c] = @ \o <<t>>],
          lbec |-> AppendListener(reg.lbec, c, t),
          m    |-> [reg.m EXCEPT ![c][t] = fn] ]

\* only the loop over vars(cls): the methods the class declares itself
ListenMethodsOwnOnly(c, decl) ==
    [i \in 1..Len(decl[c]) |-> Func(c, decl[c][i])]

\* the @listen methods found by the two loops of
\* _process_pending_event_listeners: vars(cls), then vars(p) for p in cls.mro()
ListenMethodsToProcess(c, decl) ==
    LET own == [i \in 1..Len(decl[c]) |-> Func(c, decl[c][i])]
        RECURSIVE OfMro(_)
        OfMro(k) ==
            IF k > Len(Mro(c)) THEN <<>>
            ELSE LET p == Mro(c)[k]
                 IN  [i \in 1..Len(decl[p]) |-> Func(p, decl[p][i])] \o OfMro(k + 1)
    IN  own \o OfMro(1)

RECURSIVE ProcessAll(_, _, _, _)
ProcessAll(reg, c, fns, k) ==
    IF k > Len(fns) THEN reg
    ELSE ProcessAll(ProcessPendingEventListener(reg, c, fns[k]), c, fns, k + 1)

ProcessPendingEventListeners(reg, c, decl) ==
    ProcessAll(reg, c, ListenMethodsToProcess(c, decl), 1)

\* _propagate_event_listeners_upwards(cls) on _event_listeners
RECURSIVE AppendMissing(_, _, _)
AppendMissing(target, source, k) ==
    IF k > Len(source) THEN target
    ELSE AppendMissing(IF Contains(target, source[k]) THEN target
                       ELSE target \o <<source[k]>>, source, k + 1)

RECURSIVE PropagateFrom(_, _, _)
PropagateFrom(el, c, k) ==
    IF k > Len(Mro(c)) THEN el
    ELSE LET p == Mro(c)[k]
         IN  PropagateFrom([el EXCEPT ![c] = AppendMissing(@, el[p], 1)], c, k + 1)

PropagateEventListenersUpwards(el, c) ==
    PropagateFrom(el, c, 1)

\* EventListener.__init_subclass__: runs when the class statement of c runs
InitSubclass(c) ==
    LET reg == ProcessPendingEventListeners(
                   [el |-> eventListeners, lbec |-> listenersByEventClass,
                    m |-> listenerMethods], c, declares)
    IN  /\ eventListeners' = PropagateEventListenersUpwards(reg.el, c)
        /\ listenersByEventClass' = reg.lbec
        /\ listenerMethods' = reg.m

DefaultListenerPriority == 100

\* eventListener.default_priority(), resolved along the mro; AttributeError and
\* None both give 100
RECURSIVE ResolvedDefaultPriority(_, _, _)
ResolvedDefaultPriority(c, prio, k) ==
    IF k > Len(Mro(c)) THEN None
    ELSE IF prio[Mro(c)[k]] # None THEN prio[Mro(c)[k]]
    ELSE ResolvedDefaultPriority(c, prio, k + 1)

GetPriority(c, prio) ==
    LET result == ResolvedDefaultPriority(c, prio, 1)
    IN  IF result = None THEN DefaultListenerPriority ELSE result[1]

\* listeners_for without the sort: registration order
ListenersForUnsorted(lbec, t, prio, abs) ==
    SelectSeq(lbec[t], LAMBDA c : ~abs[c])

\* EventListener.listeners_for(eventClass)
ListenersFor(lbec, t, prio, abs) ==
    SelectSeq(Sorted(lbec[t], [c \in Units |-> GetPriority(c, prio)]),
              LAMBDA c : ~abs[c])

\* cls.listen_method_for(eventClass)
ListenMethodFor(m, c, t) == m[c][t]

(***************************************************************************)
(* Dispatch engine: PythonEDA.accept and EventListener.accept              *)
(***************************************************************************)
\* what a @listen method may do when awaited
HandlerReturns ==
    {<<"none", 0>>, <<"single", 1>>, <<"raise", 0>>} \cup {<<"list", n>> : n \in 0..MaxReturn}

\* number of events a handler return carries
ReturnCount(ret) == ret[2]

\* a variant of list.extend that puts the new elements first
ExtendFront(result, more) == more \o result

\* result.extend(more)
Extend(result, more) == result \o more

Frame(ev, ls) ==
    [ev |-> ev, ls |-> ls, i |-> 1, first |-> <<>>, res |-> <<>>, k |-> 1,
     pc |-> "listeners"]

Idle == [kind |-> "idle", result |-> <<>>, exc |-> Null, about |-> 0]

TypeOf(ev) == events[ev].type

\* the caller drops what the recursive accept returned
DeliverDropping(res) ==
    IF Len(stack) = 1
    THEN /\ stack' = <<>>
         /\ outcome' = [kind |-> "returned", result |-> res, exc |-> Null, about |-> 0]
    ELSE /\ stack' = SubSeq(stack, 1, Len(stack) - 2) \o
                      << [stack[Len(stack) - 1] EXCEPT !.k = @ + 1] >>
         /\ UNCHANGED outcome

\* the result of accept handed to its caller: the parent frame or the outside
Deliver(res) ==
    IF Len(stack) = 1
    THEN /\ stack' = <<>>
         /\ outcome' = [kind |-> "returned", result |-> res, exc |-> Null, about |-> 0]
    ELSE /\ stack' = SubSeq(stack, 1, Len(stack) - 2) \o
                      << [stack[Len(stack) - 1] EXCEPT !.res = Extend(@, res),
                                                        !.k = @ + 1] >>
         /\ UNCHANGED outcome

registryVars == <<declares, declaredPriority, abstract, defined, eventListeners,
                  listenersByEventClass, listenerMethods>>

\* the class statement of unit c runs (module import)
DefineClass(c) ==
    /\ stack = <<>>
    /\ c \notin defined
    /\ Parent(c) \in defined \cup {"EventListener"}
    /\ defined' = defined \cup {c}
    /\ InitSubclass(c)
    /\ UNCHANGED <<declares, declaredPriority, abstract, events, stack, invoked, outcome>>
    /\ UNCHANGED <<portsVars, restVars>>

\* PythonEDA.accept(event) called from outside with an event of type t
Accept(t) ==
    /\ stack = <<>>
    /\ events' = << [type |-> t, gen |-> 0, parent |-> 0] >>
    /\ invoked' = <<>>
    /\ stack' = << Frame(1, ListenersFor(listenersByEventClass, t,
                                         declaredPriority, abstract)) >>
    /\ outcome' = [Idle EXCEPT !.kind = "running"]
    /\ UNCHANGED <<registryVars, portsVars, restVars>>

\* PythonEDA.accept(None): `if event:` fails, the empty list is returned
AcceptNone ==
    /\ stack = <<>>
    /\ events' = <<>>
    /\ invoked' = <<>>
    /\ outcome' = [kind |-> "returned", result |-> <<>>, exc |-> Null, about |-> 0]
    /\ UNCHANGED <<registryVars, stack, portsVars, restVars>>

\* code outside the directory appends unit c to the live list that
\* EventListener.listeners_by_event_class() hands out for event type t; no
\* handler is recorded in _event_listener_methods
WithoutMethod(lbec, m) ==
    {ct \in Units \X EventTypes : Contains(lbec[ct[2]], ct[1]) /\ m[ct[1]][ct[2]] = None}

AppendToListenersByEventClass(c, t) ==
    /\ stack = <<>>
    /\ c \in defined
    /\ Cardinality(WithoutMethod(listenersByEventClass, listenerMethods)) < MaxEdits
    /\ ~Contains(listenersByEventClass[t], c)
    /\ listenersByEventClass' = [listenersByEventClass EXCEPT ![t] = Append(@, c)]
    /\ UNCHANGED <<declares, declaredPriority, abstract, defined, eventListeners,
                   listenerMethods, events, stack, invoked, outcome>>
    /\ UNCHANGED <<portsVars, restVars>>

\* a unit without a handler ends the loop over the listeners
AcceptWithoutMethodAbandoning(stk) ==
    [stk EXCEPT ![Len(stk)].i = Len(stk[Len(stk)].ls) + 1]

\* EventListener.accept when listen_method_for returns None: its result stays
\* [], nothing is added to firstEvents and the loop takes the next listener
AcceptWithoutMethod(stk) == [stk EXCEPT ![Len(stk)].i = @ + 1]

\* one iteration of the loop over listeners_for: listenerClass.accept(event),
\* which is EventListener.accept (normalising the handler's return value)
InvokeListener ==
    /\ stack # <<>>
    /\ LET f == Last(stack)
           n == Len(stack)
       IN  /\ f.pc = "listeners"
           /\ f.i <= Len(f.ls)
           /\ LET unit == f.ls[f.i]
                  method == ListenMethodFor(listenerMethods, unit, TypeOf(f.ev))
              IN  IF method = None
                  THEN \* error logged, result = []
                       /\ stack' = AcceptWithoutMethod(stack)
                       /\ UNCHANGED <<events, invoked, outcome>>
                  ELSE \E ret \in HandlerReturns :
                       /\ ReturnCount(ret) > 0 => NextType(TypeOf(f.ev)) # Null
                       /\ (Len(events) - 1) + ReturnCount(ret) <= MaxEvents
                       /\ invoked' = invoked \o << [ev |-> f.ev, unit |-> unit, fn |-> method] >>
                       /\ IF ret[1] = "raise"
                          THEN /\ stack' = <<>>
                               /\ outcome' = [kind |-> "raised", result |-> <<>>,
                                              exc |-> "DomainError", about |-> f.ev]
                               /\ UNCHANGED events
                          ELSE LET new == [j \in 1..ReturnCount(ret) |->
                                             [type |-> NextType(TypeOf(f.ev)),
                                              gen |-> events[f.ev].gen + 1,
                                              parent |-> f.ev]]
                                   ids == [j \in 1..ReturnCount(ret) |-> Len(events) + j]
                               IN  /\ events' = events \o new
                                   /\ stack' = [stack EXCEPT ![n].i = @ + 1,
                                                             ![n].first = Extend(@, ids)]
                                   /\ UNCHANGED outcome
    /\ UNCHANGED <<registryVars, portsVars, restVars>>

\* the loop over the listeners is over: lines 68-70
EndGeneration ==
    /\ stack # <<>>
    /\ LET f == Last(stack)
           n == Len(stack)
       IN  /\ f.pc = "listeners"
           /\ f.i > Len(f.ls)
           /\ IF Len(f.first) > 0
              THEN /\ stack' = [stack EXCEPT ![n].res = Extend(@, f.first),
                                             ![n].pc = "children"]
                   /\ UNCHANGED outcome
              ELSE Deliver(<<>>)
    /\ UNCHANGED <<registryVars, events, invoked, portsVars, restVars>>

\* line 71: the recursive call self.accept(event) for the next of firstEvents
Recurse ==
    /\ stack # <<>>
    /\ LET f == Last(stack)
       IN  /\ f.pc = "children"
           /\ f.k <= Len(f.first)
           /\ stack' = stack \o
                 << Frame(f.first[f.k],
                          ListenersFor(listenersByEventClass, TypeOf(f.first[f.k]),
                                       declaredPriority, abstract)) >>
    /\ UNCHANGED <<registryVars, events, invoked, outcome, portsVars, restVars>>

\* line 72: return result
Return ==
    /\ stack # <<>>
    /\ LET f == Last(stack)
       IN  /\ f.pc = "children"
           /\ f.k > Len(f.first)
           /\ Deliver(f.res)
    /\ UNCHANGED <<registryVars, events, invoked, portsVars, restVars>>

(***************************************************************************)
(* Invariant context: pythoneda/shared/invariants.py (one execution        *)
(* context)                                                                *)
(***************************************************************************)
InvTypes == {"tenant", "app"}

InvValues == {"v1", "v2"}

\* the target None (a binding for all targets) and a specific target
NoTarget == "None"

Targets == {NoTarget, "S1"}

\* the dictionary bound to a target: invariant type -> Invariant, None = no key
NoBindings == [t \in InvTypes |-> None]

\* Invariants.bind(invariant, target), on the values dictionary
BindIn(vals, type, v, target) ==
    LET bound_invariants == IF vals[target] = None THEN NoBindings ELSE vals[target][1]
    IN  [vals EXCEPT ![target] = Some([bound_invariants EXCEPT ![type] = Some(v)])]

\* Invariants.apply(invariantType, target)
Apply(vals, type, target) ==
    LET bound_invariants == IF vals[target] = None THEN vals[NoTarget] ELSE vals[target]
    IN  IF bound_invariants # None THEN bound_invariants[1][type] ELSE None

\* Invariant.match(other): the two invariants hold the same value
InvariantMatch(v, w) == v = w

(***************************************************************************)
(* Port registry: pythoneda/shared/ports.py                                *)
(***************************************************************************)
\* LP is a port adapters may be mapped to, UP a port that is never mapped
PortTypes == {"LP", "UP"}

\* an adapter as the registry sees it:
\*   dp   what its class method default_priority() returns, None if it has none
\*   p    what its method priority() returns, None if it has none
\*   inst whether instantiate(app) yields an instance
\*   cls  whether it is mapped as a class (TRUE) or as a pre-built instance
\*   req  the value it requires of invariant "tenant", None if it requires none
Adapter(dp, p, inst, cls, req) ==
    [dp |-> dp, p |-> p, inst |-> inst, cls |-> cls, req |-> req]

AdapterKinds ==
    { Adapter(None, None, TRUE, TRUE, None),
      Adapter(Some(2), None, TRUE, TRUE, None),
      Adapter(Some(2), None, TRUE, FALSE, Some("v1")),
      Adapter(Some(0), Some(1), TRUE, FALSE, None),
      Adapter(Some(2), Some(1), FALSE, TRUE, Some("v1")),
      Adapter(Some(-2), None, TRUE, TRUE, None) }

AdapterSeqs == UNION {[1..n -> AdapterKinds] : n \in 0..MaxAdapters}

\* the mappings handed to Ports.initialize: port -> adapters, None = no key
Mappings == {[LP |-> e, UP |-> None] : e \in {None} \cup {Some(a) : a \in AdapterSeqs}}

\* sort_by_priority where priority() is asked only if there is no default_priority()
SortByPriorityDefaultFirst(a) ==
    IF a.dp # None THEN a.dp[1]
    ELSE IF a.p # None /\ a.inst THEN a.p[1]
    ELSE -1

\* sort_by_priority where an adapter without priority sorts last
SortByPriorityUndeclaredLast(a) ==
    LET default == IF a.dp # None THEN a.dp[1] ELSE 1000
    IN  IF a.p # None /\ a.inst THEN a.p[1] ELSE default

\* Ports.sort_by_priority(otherClass, app)
SortByPriority(a) ==
    LET default == IF a.dp # None THEN a.dp[1] ELSE -1
    IN  IF a.p # None /\ a.inst THEN a.p[1] ELSE default

\* whether the tenant an adapter requires is the one bound for all targets
RequirementMet(a) ==
    a.req = None
    \/ LET bound == Apply(values, "tenant", NoTarget)
       IN  bound # None /\ InvariantMatch(bound[1], a.req[1])

\* self._mappings.get(port, []): the adapters, named by their position
CandidatesOf(m, port) == IF m[port] = None THEN <<>> ELSE m[port][1]

\* candidates left after dropping those whose requirement is not met
CandidatesMatching(m, port) ==
    SelectSeq([i \in 1..Len(CandidatesOf(m, port)) |-> i],
              LAMBDA i : RequirementMet(CandidatesOf(m, port)[i]))

\* line 190: candidates = self._mappings.get(port, [])
Candidates(m, port) == [i \in 1..Len(CandidatesOf(m, port)) |-> i]

\* the sort keys of the candidates of a port, by position
KeysOf(m, port) ==
    [i \in 1..Len(CandidatesOf(m, port)) |-> SortByPriority(CandidatesOf(m, port)[i])]

\* resolve_all sorting with ties in reverse order
ResolveAllUnstable(m, port) == UnstableSorted(Candidates(m, port), KeysOf(m, port))

\* Ports.resolve_all(port)
ResolveAll(m, port) == Sorted(Candidates(m, port), KeysOf(m, port))

\* what a resolution hands out for the candidate at position i
Registered(i) == [a |-> i, form |-> "registered"]

\* lines 120-124: a class is instantiated, an instance is returned as it is
Resolved(m, port, i) ==
    LET a == CandidatesOf(m, port)[i]
    IN  IF a.cls
        THEN [a |-> i, form |-> IF a.inst THEN "instantiated" ELSE "nothing"]
        ELSE Registered(i)

\* resolve that hands out the first adapter only
ResolveFirstOnly(m, port) ==
    LET all == ResolveAll(m, port)
    IN  IF Len(all) > 0 THEN << Resolved(m, port, all[1]) >> ELSE <<>>

\* Ports.resolve(port): every adapter of resolve_all, instantiated if a class
Resolve(m, port) ==
    LET all == ResolveAll(m, port)
    IN  [k \in 1..Len(all) |-> Resolved(m, port, all[k])]

NoCall == [op |-> "none", port |-> "none", kind |-> "none", items |-> <<>>, keys |-> <<>>]

\* Ports.initialize(mappings): the singleton is replaced
Initialize(m) ==
    /\ singleton' = Some(m)
    /\ lastCall' = NoCall
    /\ prevCall' = NoCall
    /\ UNCHANGED <<dispatchVars, restVars, values>>

\* Invariants.instance().bind(Invariant(v, type), target)
Bind(type, v, target) ==
    /\ values' = BindIn(values, type, v, target)
    /\ UNCHANGED <<dispatchVars, restVars, singleton, lastCall, prevCall>>

\* resolve_all(port) called on the initialised singleton
ResolveAllCall(port) ==
    /\ singleton # None
    /\ prevCall' = lastCall
    /\ lastCall' = [op |-> "resolve_all", port |-> port, kind |-> "list",
                    items |-> [k \in 1..Len(ResolveAll(singleton[1], port)) |->
                                 Registered(ResolveAll(singleton[1], port)[k])],
                    keys |-> KeysOf(singleton[1], port)]
    /\ UNCHANGED <<dispatchVars, restVars, singleton, values>>

\* resolve(port) called on the initialised singleton
ResolveCall(port) ==
    /\ singleton # None
    /\ prevCall' = lastCall
    /\ lastCall' = [op |-> "resolve", port |-> port, kind |-> "list",
                    items |-> Resolve(singleton[1], port),
                    keys |-> KeysOf(singleton[1], port)]
    /\ UNCHANGED <<dispatchVars, restVars, singleton, values>>

\* resolve_first(port) called on the initialised singleton
ResolveFirstCall(port) ==
    /\ singleton # None
    /\ prevCall' = lastCall
    /\ LET adapters == Resolve(singleton[1], port)
       IN  lastCall' = [op |-> "resolve_first", port |-> port,
                        kind |-> IF Len(adapters) > 0 THEN "one" ELSE "absent",
                        items |-> IF Len(adapters) > 0 THEN <<adapters[1]>> ELSE <<>>,
                        keys |-> KeysOf(singleton[1], port)]
    /\ UNCHANGED <<dispatchVars, restVars, singleton, values>>

(***************************************************************************)
(* Ports.instance: src/pythoneda/shared/ports.py 87-107 and the decorator  *)
(* inject_invariants of src/pythoneda/shared/invariant.py 28-67.           *)
(* The app argument is None (omitted, or None passed) or Some("app").      *)
(***************************************************************************)
AppArguments == {None, Some("app")}

\* cls({}, app): a registry with no mapping at all
NoMappings == [p \in PortTypes |-> None]

\* the wrapper of inject_invariants for a parameter annotated Invariant[X] with
\* default None: an argument that is not None is passed on; otherwise lines
\* 58-60 evaluate Invariant.invariants(), an attribute class Invariant
\* (invariant.py 115-175) does not define: AttributeError
InjectInvariants(app) ==
    IF app # None THEN [raised |-> FALSE, app |-> app]
                  ELSE [raised |-> TRUE, app |-> None]

\* the body of Ports.instance: the singleton, else a fresh empty registry if an
\* app is given, else None
InstanceBody(s, app) ==
    IF s # None THEN s
    ELSE IF app # None THEN Some(NoMappings) ELSE None

ResolutionOps == {"resolve_all", "resolve", "resolve_first"}

\* what op(port) returns on a registry holding the mappings m
ResolutionOf(op, m, port) ==
    IF op = "resolve_all"
    THEN [kind |-> "list",
          items |-> [k \in 1..Len(ResolveAll(m, port)) |-> Registered(ResolveAll(m, port)[k])]]
    ELSE IF op = "resolve"
    THEN [kind |-> "list", items |-> Resolve(m, port)]
    ELSE IF Len(Resolve(m, port)) > 0
         THEN [kind |-> "one", items |-> <<Resolve(m, port)[1]>>]
         ELSE [kind |-> "absent", items |-> <<>>]

\* an attribute looked up on None, or the AttributeError of the wrapper
Raised == [kind |-> "raise", items |-> <<>>]

NoInstanceCall ==
    [op |-> "none", port |-> "none", app |-> FALSE, initialised |-> FALSE,
     mapped |-> FALSE, kind |-> "none", items |-> <<>>]

\* Ports.instance(app).op(port)
InstanceCall(op, port, app) ==
    /\ LET injected == InjectInvariants(app)
           ports == IF injected.raised THEN None
                    ELSE InstanceBody(singleton, injected.app)
           returned == IF ports = None THEN Raised
                       ELSE ResolutionOf(op, ports[1], port)
       IN  instanceCall' =
               [op |-> op, port |-> port, app |-> app # None,
                initialised |-> singleton # None,
                mapped |-> singleton # None /\ singleton[1][port] # None,
                kind |-> returned.kind, items |-> returned.items]
    /\ UNCHANGED <<dispatchVars, moreVars, portsVars, contextVars, flowVars, orchestratorVars>>

(***************************************************************************)
(* Invariants as a whole: pythoneda/shared/invariants.py.                  *)
(* `values` is the dictionary of the thread that constructed the singleton *)
(* (line 57); any other thread has no `values` attribute until it binds.   *)
(* Logging calls are left out of the model.                                *)
(***************************************************************************)
\* logical requests: A1 and A2 are cooperative tasks of the thread that
\* constructed Invariants, B runs on another thread
Contexts == {"A1", "A2", "B"}

Thread == [A1 |-> "main", A2 |-> "main", B |-> "worker"]

\* one store for every thread
LocalShared(ctx) == "main"

\* threading.local(): attributes are looked up per running thread
LocalOf(ctx) == Thread[ctx]

\* hasattr(self._threadlocal_data, "values") and the dictionary, as ctx sees it
ValuesOf(ctx) == IF LocalOf(ctx) = "main" THEN Some(values) ELSE workerValues

\* lines 89-90 and 102-103: the dictionary is created if the thread has none
ValuesOrNew(ctx) ==
    IF ValuesOf(ctx) = None THEN [g \in Targets |-> None] ELSE ValuesOf(ctx)[1]

\* the dictionary of the thread of ctx becomes vals
StoreValues(ctx, vals) ==
    IF LocalOf(ctx) = "main"
    THEN values' = vals /\ UNCHANGED workerValues
    ELSE workerValues' = Some(vals) /\ UNCHANGED values

\* str(v.value) of a bound Invariant: a str, no longer an Invariant
Str(v) == IF v = "v1" THEN "str(v1)" ELSE IF v = "v2" THEN "str(v2)" ELSE "str"

\* isinstance(v, Invariant); an Invariant is named by its value, and a logical
\* request may bind an Invariant whose value names the request
IsInvariant(v) == v \in InvValues \cup Contexts

\* Invariants.bind_all(invariants, target)
BindAllIn(vals, invariants, target) == [vals EXCEPT ![target] = Some(invariants)]

\* Invariants.apply_all(target), on the values dictionary
ApplyAll(vals, target) ==
    IF vals[target] # None THEN vals[target][1]
    ELSE IF vals[NoTarget] # None THEN vals[NoTarget][1] ELSE NoBindings

\* lines 184-186: every Invariant of the dictionary is replaced by a str
Serialized(d) ==
    [t \in InvTypes |-> IF d[t] # None /\ IsInvariant(d[t][1]) THEN Some(Str(d[t][1]))
                        ELSE d[t]]

\* Invariants.to_json(target), on the values dictionary: the dictionary that is
\* serialized is the bound one, and the loop assigns into it
ToJsonIn(vals, target) ==
    LET key == IF vals[target] # None THEN target ELSE NoTarget
    IN  IF vals[key] = None THEN vals
        ELSE [vals EXCEPT ![key] = Some(Serialized(vals[key][1]))]

\* getattr(target, "_value"): None has no such attribute, S1 holds "v1"
TargetValue(target) == IF target = NoTarget THEN None ELSE Some("v1")

\* lines 208-212, from the k-th required invariant on
RECURSIVE MatchFrom(_, _, _, _)
MatchFrom(bound_invariants, target, required, k) ==
    IF k > Len(required) THEN "true"
    ELSE LET target_invariant == bound_invariants[required[k].type]
         IN  IF target_invariant = None THEN "false"
             ELSE IF ~IsInvariant(target_invariant[1]) \/ TargetValue(target) = None
                  THEN "raise"
             ELSE IF ~InvariantMatch(target_invariant[1], TargetValue(target)[1])
                  THEN "false"
             ELSE MatchFrom(bound_invariants, target, required, k + 1)

\* Invariants.match(target, invariants); valuesOpt is ValuesOf the caller
Match(valuesOpt, target, required) ==
    IF valuesOpt = None THEN "false"
    ELSE IF valuesOpt[1][target] = None THEN "true"
    ELSE MatchFrom(valuesOpt[1][target][1], target, required, 1)

\* the dictionaries handed to match, as lists of (type, value) in key order
Requirements ==
    { <<>>,
      << [type |-> "tenant", value |-> "v1"] >>,
      << [type |-> "tenant", value |-> "v2"] >>,
      << [type |-> "app", value |-> "v1"] >>,
      << [type |-> "tenant", value |-> "v1"], [type |-> "app", value |-> "v1"] >> }

\* the dictionaries handed to bind_all
InvariantDicts ==
    { NoBindings,
      [tenant |-> Some("v1"), app |-> None],
      [tenant |-> Some("v2"), app |-> Some("v1")] }

NoInvCall ==
    [ctx |-> "none", op |-> "none", type |-> "none", target |-> "none",
     value |-> None, required |-> <<>>, result |-> None, all |-> NoBindings,
     verdict |-> "none"]

\* Invariants.instance().bind(Invariant(v, type), target) by ctx
BindCall(ctx, type, v, target) ==
    /\ StoreValues(ctx, BindIn(ValuesOrNew(ctx), type, v, target))
    /\ invCall' = [NoInvCall EXCEPT !.ctx = ctx, !.op = "bind", !.type = type,
                                    !.target = target, !.value = Some(v)]
    /\ UNCHANGED <<dispatchVars, moreVars, singleton, lastCall, prevCall, instanceCall, flowVars, orchestratorVars>>

\* Invariants.instance().bind_all(invariants, target) by ctx
BindAllCall(ctx, invariants, target) ==
    /\ StoreValues(ctx, BindAllIn(ValuesOrNew(ctx), invariants, target))
    /\ invCall' = [NoInvCall EXCEPT !.ctx = ctx, !.op = "bind_all",
                                    !.target = target, !.all = invariants]
    /\ UNCHANGED <<dispatchVars, moreVars, singleton, lastCall, prevCall, instanceCall, flowVars, orchestratorVars>>

\* PythonedaApplication.__init__ run by ctx: the application is bound for all targets
PythonedaApplicationInit(ctx) ==
    /\ StoreValues(ctx, BindIn(ValuesOrNew(ctx), "app", ctx, NoTarget))
    /\ invCall' = [NoInvCall EXCEPT !.ctx = ctx, !.op = "bind", !.type = "app",
                                    !.target = NoTarget, !.value = Some(ctx)]
    /\ UNCHANGED <<dispatchVars, moreVars, singleton, lastCall, prevCall, instanceCall, flowVars, orchestratorVars>>

\* Invariants.instance().apply(type, target) by ctx
ApplyCall(ctx, type, target) ==
    /\ invCall' = [NoInvCall EXCEPT !.ctx = ctx, !.op = "apply", !.type = type,
                     !.target = target,
                     !.result = IF ValuesOf(ctx) = None THEN None
                                ELSE Apply(ValuesOf(ctx)[1], type, target)]
    /\ UNCHANGED <<dispatchVars, moreVars, portsVars, instanceCall, workerValues, flowVars, orchestratorVars>>

\* Invariants.instance().apply_all(target) by ctx
ApplyAllCall(ctx, target) ==
    /\ invCall' = [NoInvCall EXCEPT !.ctx = ctx, !.op = "apply_all", !.target = target,
                     !.all = IF ValuesOf(ctx) = None THEN NoBindings
                             ELSE ApplyAll(ValuesOf(ctx)[1], target)]
    /\ UNCHANGED <<dispatchVars, moreVars, portsVars, instanceCall, workerValues, flowVars, orchestratorVars>>

\* Invariants.instance().match(target, required) by ctx
MatchCall(ctx, target, required) ==
    /\ invCall' = [NoInvCall EXCEPT !.ctx = ctx, !.op = "match", !.target = target,
                     !.required = required,
                     !.verdict = Match(ValuesOf(ctx), target, required)]
    /\ UNCHANGED <<dispatchVars, moreVars, portsVars, instanceCall, workerValues, flowVars, orchestratorVars>>

\* Invariants.instance().to_json(target) by ctx
ToJsonCall(ctx, target) ==
    /\ ValuesOf(ctx) # None
    /\ StoreValues(ctx, ToJsonIn(ValuesOf(ctx)[1], target))
    /\ invCall' = [NoInvCall EXCEPT !.ctx = ctx, !.op = "to_json", !.target = target,
                     !.all = Serialized(ApplyAll(ValuesOf(ctx)[1], target))]
    /\ UNCHANGED <<dispatchVars, moreVars, singleton, lastCall, prevCall, instanceCall, flowVars, orchestratorVars>>

(***************************************************************************)
(* Flow: pythoneda/shared/flow.py; Event: pythoneda/shared/event.py.       *)
(* Logging calls are left out of the model.                                *)
(***************************************************************************)
\* the events of the fixture; ea and ed are of the same class
FlowEventPool == {"ea", "eb", "ec", "ed", "ez"}

\* two more events, of a class K that declares a @primary_key_attribute
KeyedEvents == {"ek", "el"}

\* Event.id
EventId == [ea |-> "a", eb |-> "b", ec |-> "c", ed |-> "d", ez |-> "e",
            ek |-> "k", el |-> "l"]

\* Event.previous_event_ids
PreviousEventIds ==
    [ea |-> <<>>, eb |-> <<"a">>, ec |-> <<"b">>, ed |-> <<"a", "b">>, ez |-> <<"z">>,
     ek |-> <<>>, el |-> <<"k">>]

\* event.__class__; E1 to E4 declare no primary key attribute, as Event itself
\* declares none
EventClass == [ea |-> "E1", eb |-> "E2", ec |-> "E3", ed |-> "E1", ez |-> "E4",
               ek |-> "K", el |-> "K"]

\* the values of the attributes named by primary_key(), <<>> when it is empty
EventKey == [ea |-> <<>>, eb |-> <<>>, ec |-> <<>>, ed |-> <<>>, ez |-> <<>>,
             ek |-> <<"x">>, el |-> <<"y">>]

\* ValueObject.__eq__: an instance of the same class with the same primary key
\* attributes; with an empty primary_key() the loop over the key runs zero
\* times, so any instance of the same class is equal
EventEq(self, other) ==
    EventClass[other] = EventClass[self] /\ EventKey[other] = EventKey[self]

\* `event in self._events`: identity, or __eq__
EventIn(event, evts) ==
    \E i \in 1..Len(evts) : evts[i] = event \/ EventEq(evts[i], event)

\* Flow.__init__ before add_event(firstEvent)
EmptyFlow == [first |-> None, events |-> <<>>]

\* add_event that always inserts
AddEventInUnguarded(flow, event) ==
    IF event = None THEN flow
    ELSE [first |-> IF flow.first = None THEN event ELSE flow.first,
          events |-> <<event[1]>> \o flow.events]

\* add_event that takes every event as the first one
AddEventInResettingFirst(flow, event) ==
    IF event = None THEN flow
    ELSE [first |-> event,
          events |-> IF ~EventIn(event[1], flow.events)
                     THEN <<event[1]>> \o flow.events ELSE flow.events]

\* Flow.add_event(event), event being None or Some(e)
AddEventIn(flow, event) ==
    IF event = None THEN flow
    ELSE [first |-> IF flow.first = None THEN event ELSE flow.first,
          events |-> IF ~EventIn(event[1], flow.events)
                     THEN <<event[1]>> \o flow.events ELSE flow.events]

\* second.index(item)
Index(second, item) ==
    CHOOSE i \in 1..Len(second) :
        second[i] = item /\ \A j \in 1..(i - 1) : second[j] # item

\* second_indices == sorted(second_indices)
NonDecreasing(indices) == \A i \in 1..(Len(indices) - 1) : indices[i] <= indices[i + 1]

\* first_continued_second without the check of the order
FirstContinuedSecondUnordered(first, second) ==
    IF first = second THEN TRUE
    ELSE IF ~(\E i \in 1..Len(first) : ~Contains(second, first[i])) THEN FALSE
    ELSE Len(SelectSeq(first, LAMBDA item : Contains(second, item))) > 0

\* Flow.first_continued_second(first, second)
FirstContinuedSecond(first, second) ==
    IF first = second THEN TRUE
    ELSE IF ~(\E i \in 1..Len(first) : ~Contains(second, first[i])) THEN FALSE
    ELSE LET common_items == SelectSeq(first, LAMBDA item : Contains(second, item))
             second_indices == [k \in 1..Len(common_items) |->
                                   Index(second, common_items[k])]
         IN  IF Len(common_items) = 0 THEN FALSE
             ELSE IF ~NonDecreasing(second_indices) THEN FALSE
             ELSE TRUE

\* line 91: [evt.id for evt in self._events]
MyEventIds(flow) == [i \in 1..Len(flow.events) |-> EventId[flow.events[i]]]

\* line 92: [event.id] + event.previous_event_ids
IncomingIds(event) == <<EventId[event]>> \o PreviousEventIds[event]

\* continue_flow is abstract: an implementation records the event or does not,
\* and returns a list of events
ContinueFlowBehaviours == {"absorb", "ignore"}

ContinueFlowResults == {<<>>, <<"ez">>}

ContinueFlow(flow, event, behaviour) ==
    IF behaviour = "absorb" THEN AddEventIn(flow, Some(event)) ELSE flow

\* resume that records the event when the check fails
ResumeInAbsorbing(flow, event, behaviour, returned) ==
    IF FirstContinuedSecond(IncomingIds(event), MyEventIds(flow))
    THEN [invoked |-> TRUE, flow |-> ContinueFlow(flow, event, behaviour),
          result |-> Some(returned)]
    ELSE [invoked |-> FALSE, flow |-> AddEventIn(flow, Some(event)), result |-> None]

\* Flow.resume(event)
ResumeIn(flow, event, behaviour, returned) ==
    IF FirstContinuedSecond(IncomingIds(event), MyEventIds(flow))
    THEN [invoked |-> TRUE, flow |-> ContinueFlow(flow, event, behaviour),
          result |-> Some(returned)]
    ELSE [invoked |-> FALSE, flow |-> flow, result |-> None]

\* the Flow object as a record
TheFlow == [first |-> flowFirstEvent, events |-> flowEvents]

NoFlowCall ==
    [op |-> "none", event |-> None, chain |-> <<>>, incoming |-> <<>>,
     recorded |-> FALSE, invoked |-> FALSE, result |-> None]

\* flow.add_event(event)
AddEventCall(event) ==
    /\ flowFirstEvent' = AddEventIn(TheFlow, event).first
    /\ flowEvents' = AddEventIn(TheFlow, event).events
    /\ flowCall' = [NoFlowCall EXCEPT !.op = "add_event", !.event = event,
                                      !.chain = MyEventIds(TheFlow),
                                      !.recorded = event # None
                                                   /\ Contains(flowEvents, event[1])]
    /\ UNCHANGED <<dispatchVars, moreVars, portsVars, instanceCall, contextVars, orchestratorVars>>

\* await flow.resume(event), continue_flow behaving as given
ResumeCall(event, behaviour, returned) ==
    /\ LET resumed == ResumeIn(TheFlow, event, behaviour, returned)
       IN  /\ flowFirstEvent' = resumed.flow.first
           /\ flowEvents' = resumed.flow.events
           /\ flowCall' = [op |-> "resume", event |-> Some(event),
                           chain |-> MyEventIds(TheFlow),
                           incoming |-> IncomingIds(event),
                           recorded |-> Contains(flowEvents, event),
                           invoked |-> resumed.invoked,
                           result |-> resumed.result]
    /\ UNCHANGED <<dispatchVars, moreVars, portsVars, instanceCall, contextVars, orchestratorVars>>

\* the classes find_latest_event is asked for
LookupClasses == {"Event", "E1", "E2", "K"}

\* isinstance(event, eventClass)
IsEventOfClass(event, eventClass) ==
    eventClass = "Event" \/ EventClass[event] = eventClass

\* reversed(self._events)
Reversed(evts) == [i \in 1..Len(evts) |-> evts[Len(evts) + 1 - i]]

\* Flow.find_latest_event(eventClass): the first match of the loop, or None
FindLatestEvent(evts, eventClass) ==
    LET matches == SelectSeq(Reversed(evts), LAMBDA e : IsEventOfClass(e, eventClass))
    IN  IF Len(matches) = 0 THEN None ELSE Some(matches[1])

NoFindCall == [op |-> "none", eventClass |-> "none", result |-> None]

\* flow.find_latest_event(eventClass)
FindLatestEventCall(eventClass) ==
    /\ findCall' = [op |-> "find_latest_event", eventClass |-> eventClass,
                    result |-> FindLatestEvent(flowEvents, eventClass)]
    /\ UNCHANGED <<dispatchVars, portsVars, instanceCall, contextVars, flowVars,
                   orchestratorVars, objectVars, reprVars,
                   emitterVars>>

(***************************************************************************)
(* Primary port orchestrator: PythonEDA.accept_input and                   *)
(* delegate_priority, PythonEDA/application/pythoneda.py 50-57.            *)
(***************************************************************************)
MaxPorts == 3

\* PrimaryPort.priority()
DefaultPrimaryPortPriority == 100

\* GrpcServer.priority()
GrpcServerPriority == 999

\* a primary port class as the orchestrator sees it:
\*   priority   what its own priority() returns, None if it inherits PrimaryPort's
\*   constructs whether primaryPort() yields an instance; GrpcServer.__init__
\*              (grpc_server.py 17-22) names `self` without declaring it: NameError
PrimaryPortKinds ==
    { [priority |-> None, constructs |-> TRUE],
      [priority |-> Some(1), constructs |-> TRUE],
      [priority |-> Some(GrpcServerPriority), constructs |-> TRUE],
      [priority |-> Some(GrpcServerPriority), constructs |-> FALSE] }

PrimaryPortLists == UNION {[1..n -> PrimaryPortKinds] : n \in 0..MaxPorts}

\* PythonEDA.delegate_priority(primaryPort): primaryPort().priority()
DelegatePriority(kind) ==
    IF kind.priority # None THEN kind.priority[1] ELSE DefaultPrimaryPortPriority

\* the ports in the order they were found
StartOrderAsFound(ports) == [i \in 1..Len(ports) |-> i]

\* sorted(self.get_primary_ports(), key=PythonEDA.delegate_priority), the ports
\* named by their position in get_primary_ports()
StartOrder(ports) ==
    Sorted([i \in 1..Len(ports) |-> i],
           [i \in 1..Len(ports) |-> DelegatePriority(ports[i])])

\* accept_input is called: the key function instantiates every port, and
\* the exception of a constructor ends accept_input before any port is started
AcceptInput ==
    /\ phase = "idle"
    /\ IF \A i \in 1..Len(primaryPorts) : primaryPorts[i].constructs
       THEN /\ phase' = "iterating"
            /\ startOrder' = StartOrder(primaryPorts)
       ELSE /\ phase' = "failed"
            /\ UNCHANGED startOrder
    /\ UNCHANGED <<primaryPorts, started, running, finished>>
    /\ UNCHANGED <<dispatchVars, moreVars, portsVars, instanceCall, contextVars, flowVars>>

\* the loop takes the next port: port = primaryPort(); port.accept(self) is called
StartNext ==
    /\ phase = "iterating"
    /\ running = None
    /\ Len(started) < Len(startOrder)
    /\ started' = Append(started, startOrder[Len(started) + 1])
    /\ running' = Some(startOrder[Len(started) + 1])
    /\ UNCHANGED <<primaryPorts, phase, startOrder, finished>>
    /\ UNCHANGED <<dispatchVars, moreVars, portsVars, instanceCall, contextVars, flowVars>>

\* the awaited accept returns
AcceptReturns ==
    /\ running # None
    /\ finished' = Append(finished, [port |-> running[1], how |-> "returned"])
    /\ running' = None
    /\ UNCHANGED <<primaryPorts, phase, startOrder, started>>
    /\ UNCHANGED <<dispatchVars, moreVars, portsVars, instanceCall, contextVars, flowVars>>

\* the awaited accept raises: the exception leaves the loop and accept_input
AcceptRaises ==
    /\ running # None
    /\ finished' = Append(finished, [port |-> running[1], how |-> "failed"])
    /\ running' = None
    /\ phase' = "failed"
    /\ UNCHANGED <<primaryPorts, startOrder, started>>
    /\ UNCHANGED <<dispatchVars, moreVars, portsVars, instanceCall, contextVars, flowVars>>

\* the loop is exhausted: accept_input returns
AcceptInputReturns ==
    /\ phase = "iterating"
    /\ running = None
    /\ Len(started) = Len(startOrder)
    /\ phase' = "returned"
    /\ UNCHANGED <<primaryPorts, startOrder, started, running, finished>>
    /\ UNCHANGED <<dispatchVars, moreVars, portsVars, instanceCall, contextVars, flowVars>>

(***************************************************************************)
(* Value objects and events: pythoneda/shared/value_object.py (__init__,   *)
(* primary_key, __eq__, __hash__) and pythoneda/shared/event.py.           *)
(***************************************************************************)
MaxObjects == 3

\* three event classes: E declares no @primary_key_attribute, F is a subclass
\* of E, K declares its payload as @primary_key_attribute
ObjectClasses == {"E", "F", "K"}

\* the values of _id: uuid4 strings, or the reconstructedId given to Event
ObjectIds == {"i1", "i2"}

Payloads == {"x", "y"}

\* isinstance(o, cls)
IsInstance(o, cls) == o.cls = cls \/ (o.cls = "F" /\ cls = "E")

\* ValueObject.primary_key(): the names of the @primary_key_attribute properties
PrimaryKey(cls) == IF cls = "K" THEN <<"payload">> ELSE <<>>

\* getattr(o, key, None)
GetAttr(o, key) == IF key = "payload" THEN Some(o.payload) ELSE None

\* ValueObject.__eq__(self, other), other being None or an object (a Formatting
\* wrapper is unwrapped first)
ValueObjectEq(self, other) ==
    IF other = None
    THEN FALSE
    ELSE IF IsInstance(other[1], self.cls)
         THEN \A k \in 1..Len(PrimaryKey(self.cls)) :
                 GetAttr(self, PrimaryKey(self.cls)[k])
                     = GetAttr(other[1], PrimaryKey(self.cls)[k])
         ELSE FALSE

\* ValueObject.__hash__(self): the tuple that is hashed stands for its hash
\* (two different tuples hash differently, but for a collision)
ValueObjectHash(self) ==
    LET attrs == [k \in 1..Len(PrimaryKey(self.cls)) |->
                    GetAttr(self, PrimaryKey(self.cls)[k])[1]]
    IN  IF Len(attrs) = 0
        THEN <<self.id, self.cls>>
        ELSE attrs

NoEqCall == [op |-> "none", a |-> 0, b |-> 0, eq |-> FALSE,
             hashA |-> <<>>, hashB |-> <<>>]

\* cls(...): ValueObject.__init__ draws _id from uuid4, Event.__init__ replaces
\* it by reconstructedId when one is given
Construct(cls, id, payload) ==
    /\ Len(objects) < MaxObjects
    /\ objects' = Append(objects, [cls |-> cls, id |-> id, payload |-> payload])
    /\ UNCHANGED eqCall
    /\ UNCHANGED <<dispatchVars, portsVars, instanceCall, contextVars, flowVars,
                   orchestratorVars, reprVars, lookupVars,
                   emitterVars>>

\* objects[a] == objects[b], hash(objects[a]) and hash(objects[b])
Compare(a, b) ==
    /\ eqCall' = [op |-> "eq", a |-> a, b |-> b,
                  eq |-> ValueObjectEq(objects[a], Some(objects[b])),
                  hashA |-> ValueObjectHash(objects[a]),
                  hashB |-> ValueObjectHash(objects[b])]
    /\ UNCHANGED objects
    /\ UNCHANGED <<dispatchVars, portsVars, instanceCall, contextVars, flowVars,
                   orchestratorVars, reprVars, lookupVars,
                   emitterVars>>

\* objects[a] == None
CompareWithNone(a) ==
    /\ eqCall' = [op |-> "eq_none", a |-> a, b |-> 0,
                  eq |-> ValueObjectEq(objects[a], None),
                  hashA |-> ValueObjectHash(objects[a]), hashB |-> <<>>]
    /\ UNCHANGED objects
    /\ UNCHANGED <<dispatchVars, portsVars, instanceCall, contextVars, flowVars,
                   orchestratorVars, reprVars, lookupVars,
                   emitterVars>>

(***************************************************************************)
(* Representations of a value object with a @sensitive attribute:          *)
(* pythoneda/shared/value_object.py (sensitive, _normalize_value, to_dict, *)
(* to_json, __str__) and pythoneda/shared/sensitive_value.py.              *)
(***************************************************************************)
MaxHolders == 2

\* the types of the values a @sensitive getter returns
WrappedKinds == {"None", "str", "int", "list", "dict", "ValueObject"}

Secrets == {"s1", "s2"}

\* SensitiveValue.__str__
Hidden == "[hidden]"

\* what the getters return: the plain attribute is a str, the sensitive one is
\* SensitiveValue(value)
SensitiveValues ==
    {[sensitive |-> TRUE, kind |-> k, content |-> c] : k \in WrappedKinds, c \in Secrets}

PlainValue(text) == [sensitive |-> FALSE, kind |-> "str", content |-> text]

\* hasattr(value, "to_dict") and callable(value.to_dict): SensitiveValue has
\* no to_dict, its __getattr__ delegates to the wrapped value
HasToDict(value) == value.kind = "ValueObject"

\* _normalize_value of a value that is not wrapped, as the tokens of its JSON
NormalizeUnwrapped(kind, content) ==
    CASE kind = "None" -> <<"null">>
      [] kind \in {"str", "int"} -> <<content>>
      [] kind = "list" -> <<"[", content, "]">>
      [] kind \in {"dict", "ValueObject"} -> <<"{", "attr", content, "}">>

\* ValueObject._normalize_value(value): a SensitiveValue is none of None, bool,
\* int, float, str, datetime, ValueObject, list, tuple, dict, so steps 1 to 5
\* are passed over; step 6 asks for to_dict, step 7 is str(value)
NormalizeValue(value) ==
    IF ~value.sensitive
    THEN NormalizeUnwrapped(value.kind, value.content)
    ELSE IF HasToDict(value)
         THEN NormalizeUnwrapped("dict", value.content)
         ELSE <<Hidden>>

\* ValueObject.to_dict()
ToDict(h) ==
    [id |-> <<h.id>>, name |-> NormalizeValue(PlainValue(h.name)),
     pwd |-> NormalizeValue(h.pwd)]

\* json.dumps(d), as tokens
JsonDumps(d) ==
    <<"{", "id">> \o d.id \o <<"name">> \o d.name \o <<"pwd">> \o d.pwd \o <<"}">>

NoDict == [id |-> <<>>, name |-> <<>>, pwd |-> <<>>]

NoReprCall == [op |-> "none", a |-> 0, dict |-> NoDict, text |-> <<>>]

\* Holder(name, pwd), reconstructed with the id or not
ConstructHolder(id, name, pwd) ==
    /\ Len(holders) < MaxHolders
    /\ holders' = Append(holders, [id |-> id, name |-> name, pwd |-> pwd])
    /\ UNCHANGED reprCall
    /\ UNCHANGED <<dispatchVars, portsVars, instanceCall, contextVars, flowVars,
                   orchestratorVars, objectVars, lookupVars,
                   emitterVars>>

\* holders[a].to_dict()
ObjectToDict(a) ==
    /\ reprCall' = [op |-> "to_dict", a |-> a, dict |-> ToDict(holders[a]),
                    text |-> <<>>]
    /\ UNCHANGED holders
    /\ UNCHANGED <<dispatchVars, portsVars, instanceCall, contextVars, flowVars,
                   orchestratorVars, objectVars, lookupVars,
                   emitterVars>>

\* holders[a].to_json()
ObjectToJson(a) ==
    /\ reprCall' = [op |-> "to_json", a |-> a, dict |-> ToDict(holders[a]),
                    text |-> JsonDumps(ToDict(holders[a]))]
    /\ UNCHANGED holders
    /\ UNCHANGED <<dispatchVars, portsVars, instanceCall, contextVars, flowVars,
                   orchestratorVars, objectVars, lookupVars,
                   emitterVars>>

\* str(holders[a])
ObjectStr(a) ==
    /\ reprCall' = [op |-> "str", a |-> a, dict |-> ToDict(holders[a]),
                    text |-> JsonDumps(ToDict(holders[a]))]
    /\ UNCHANGED holders
    /\ UNCHANGED <<dispatchVars, portsVars, instanceCall, contextVars, flowVars,
                   orchestratorVars, objectVars, lookupVars,
                   emitterVars>>

(***************************************************************************)
(* Event emitter: pythoneda/shared/event_emitter.py. emit awaits each      *)
(* receiver's accept; while it is suspended there, the receiver itself or  *)
(* another task may call register_receiver and unregister_receiver.        *)
(***************************************************************************)
Receivers == {"r1", "r2", "r3"}

\* list.remove(x): the first occurrence is taken out
Remove(s, x) ==
    LET i == CHOOSE k \in 1..Len(s) : s[k] = x /\ \A j \in 1..(k - 1) : s[j] # x
    IN  SubSeq(s, 1, i - 1) \o SubSeq(s, i + 1, Len(s))

\* EventEmitter.register_receiver(receiver)
RegisterReceiver(receiver) ==
    /\ receivers' = IF ~Contains(receivers, receiver)
                    THEN Append(receivers, receiver) ELSE receivers
    /\ UNCHANGED <<emitPhase, emitIdx, emitStart, accepted>>
    /\ UNCHANGED <<dispatchVars, portsVars, instanceCall, contextVars, flowVars,
                   orchestratorVars, objectVars, reprVars, lookupVars>>

\* EventEmitter.unregister_receiver(receiver)
UnregisterReceiver(receiver) ==
    /\ receivers' = IF Contains(receivers, receiver)
                    THEN Remove(receivers, receiver) ELSE receivers
    /\ UNCHANGED <<emitPhase, emitIdx, emitStart, accepted>>
    /\ UNCHANGED <<dispatchVars, portsVars, instanceCall, contextVars, flowVars,
                   orchestratorVars, objectVars, reprVars, lookupVars>>

\* one step of `for receiver in EventEmitter._receivers`: the list iterator
\* reads the live list at its position; either the next receiver's accept is
\* called and awaited, or the loop and emit end
IterateFrom(idx) ==
    IF idx <= Len(receivers)
    THEN /\ accepted' = Append(accepted, receivers[idx])
         /\ emitIdx' = idx + 1
         /\ emitPhase' = "awaiting"
    ELSE /\ emitPhase' = "done"
         /\ UNCHANGED <<accepted, emitIdx>>

\* emitter.emit(event) is called and runs up to its first await (or to its end)
Emit ==
    /\ emitPhase # "awaiting"
    /\ emitStart' = receivers
    /\ IF Len(receivers) >= 1
       THEN /\ accepted' = <<receivers[1]>>
            /\ emitIdx' = 2
            /\ emitPhase' = "awaiting"
       ELSE /\ accepted' = <<>>
            /\ emitIdx' = 1
            /\ emitPhase' = "done"
    /\ UNCHANGED receivers
    /\ UNCHANGED <<dispatchVars, portsVars, instanceCall, contextVars, flowVars,
                   orchestratorVars, objectVars, reprVars, lookupVars>>

\* the awaited accept returns and the loop of emit goes on
EmitResumes ==
    /\ emitPhase = "awaiting"
    /\ IterateFrom(emitIdx)
    /\ UNCHANGED <<receivers, emitStart>>
    /\ UNCHANGED <<dispatchVars, portsVars, instanceCall, contextVars, flowVars,
                   orchestratorVars, objectVars, reprVars, lookupVars>>

(***************************************************************************)
(* Specifications                                                          *)
(***************************************************************************)
InitDispatch ==
    /\ declares \in Declarations
    /\ declaredPriority \in [Units -> DeclaredPriorities]
    /\ abstract \in [Units -> BOOLEAN]
    /\ defined = {}
    /\ eventListeners = [c \in Units |-> <<>>]
    /\ listenersByEventClass = [t \in EventTypes |-> <<>>]
    /\ listenerMethods = [c \in Units |-> [t \in EventTypes |-> None]]
    /\ events = <<>>
    /\ stack = <<>>
    /\ invoked = <<>>
    /\ outcome = Idle

\* no listener unit is defined and none will be
NoDispatch ==
    /\ declares = [P |-> <<>>, S |-> <<>>, Q |-> <<>>]
    /\ declaredPriority = [c \in Units |-> None]
    /\ abstract = [c \in Units |-> FALSE]
    /\ defined = {}
    /\ eventListeners = [c \in Units |-> <<>>]
    /\ listenersByEventClass = [t \in EventTypes |-> <<>>]
    /\ listenerMethods = [c \in Units |-> [t \in EventTypes |-> None]]
    /\ events = <<>>
    /\ stack = <<>>
    /\ invoked = <<>>
    /\ outcome = Idle

\* Ports._singleton = None; Invariants.__init__: values = {}
InitPorts ==
    /\ singleton = None
    /\ values = [g \in Targets |-> None]
    /\ lastCall = NoCall
    /\ prevCall = NoCall

NextDispatch ==
    \/ \E c \in Units : DefineClass(c)
    \/ \E t \in EventTypes : Accept(t)
    \/ AcceptNone
    \/ InvokeListener
    \/ EndGeneration
    \/ Recurse
    \/ Return

NextPorts ==
    \/ \E m \in Mappings : Initialize(m)
    \/ \E v \in InvValues, g \in Targets : Bind("tenant", v, g)
    \/ \E port \in PortTypes : ResolveAllCall(port)
    \/ \E port \in PortTypes : ResolveCall(port)
    \/ \E port \in PortTypes : ResolveFirstCall(port)

\* no call has been made on the other components
NoCalls ==
    /\ instanceCall = NoInstanceCall
    /\ workerValues = None
    /\ invCall = NoInvCall

\* no value object has been constructed and none will be
NoObjects ==
    /\ objects = <<>>
    /\ eqCall = NoEqCall

\* no value object with a @sensitive attribute exists
NoHolders ==
    /\ holders = <<>>
    /\ reprCall = NoReprCall

\* find_latest_event has not been called
NoLookups == findCall = NoFindCall

\* no receiver is registered and none will be
NoEmitter ==
    /\ receivers = <<>>
    /\ emitPhase = "idle"
    /\ emitIdx = 1
    /\ emitStart = <<>>
    /\ accepted = <<>>

InitRest == NoCalls /\ NoObjects /\ NoHolders /\ NoLookups /\ NoEmitter

\* PythonEDA.__init__: no primary port, accept_input never called
NoOrchestrator ==
    /\ primaryPorts = <<>>
    /\ phase = "returned"
    /\ startOrder = <<>>
    /\ started = <<>>
    /\ running = None
    /\ finished = <<>>

\* main: _primaryPorts = get_implementations(PrimaryPort), accept_input not yet called
InitOrchestrator ==
    /\ primaryPorts \in PrimaryPortLists
    /\ phase = "idle"
    /\ startOrder = <<>>
    /\ started = <<>>
    /\ running = None
    /\ finished = <<>>

\* Flow(): a Flow constructed without a first event, never called
NoFlow ==
    /\ flowFirstEvent = None
    /\ flowEvents = <<>>
    /\ flowCall = NoFlowCall

\* Flow(firstEvent), firstEvent being None or an event
InitFlow ==
    /\ \E firstEvent \in {None} \cup {Some(e) : e \in FlowEventPool} :
          /\ flowFirstEvent = AddEventIn(EmptyFlow, firstEvent).first
          /\ flowEvents = AddEventIn(EmptyFlow, firstEvent).events
    /\ flowCall = NoFlowCall

Init == InitDispatch /\ InitPorts /\ InitRest /\ NoFlow /\ NoOrchestrator

Next == NextDispatch

\* the dispatch engine and the listener directory
Spec == Init /\ [][Next]_vars

\* three concrete units: P handles E1, its subclass S handles E2, Q handles E1
\* and E3 with priority 5; S declares no priority and P any
InitDirectoryEdited ==
    /\ declares = [P |-> <<"E1">>, S |-> <<"E2">>, Q |-> <<"E1", "E3">>]
    /\ \E p \in DeclaredPriorities :
          declaredPriority = [P |-> p, S |-> None, Q |-> Some(5)]
    /\ abstract = [c \in Units |-> FALSE]
    /\ defined = {}
    /\ eventListeners = [c \in Units |-> <<>>]
    /\ listenersByEventClass = [t \in EventTypes |-> <<>>]
    /\ listenerMethods = [c \in Units |-> [t \in EventTypes |-> None]]
    /\ events = <<>>
    /\ stack = <<>>
    /\ invoked = <<>>
    /\ outcome = Idle
    /\ InitPorts /\ InitRest /\ NoFlow /\ NoOrchestrator

\* the steps of a running accept: each await is resumed, the loops go on
AcceptStep == InvokeListener \/ EndGeneration \/ Recurse \/ Return

\* the dispatch engine, a call of accept that has started being carried on
SpecFair == Init /\ [][Next]_vars /\ WF_vars(AcceptStep)

\* the dispatch engine over a directory that other code may have edited
NextDirectoryEdited ==
    \/ NextDispatch
    \/ \E c \in Units, t \in EventTypes : AppendToListenersByEventClass(c, t)

SpecDirectoryEdited == InitDirectoryEdited /\ [][NextDirectoryEdited]_vars

\* the port registry and the invariant context
InitPortsOnly == NoDispatch /\ InitPorts /\ InitRest /\ NoFlow /\ NoOrchestrator

SpecPorts == InitPortsOnly /\ [][NextPorts]_vars

\* the registry as reached through Ports.instance
NextInstance ==
    \/ \E m \in Mappings : Initialize(m)
    \/ \E op \in ResolutionOps, port \in PortTypes, app \in AppArguments :
          InstanceCall(op, port, app)

SpecInstance == InitPortsOnly /\ [][NextInstance]_vars

\* the invariant context of one logical request
NextInvariants ==
    \/ \E type \in InvTypes, v \in InvValues, target \in Targets :
          BindCall("A1", type, v, target)
    \/ \E invariants \in InvariantDicts, target \in Targets :
          BindAllCall("A1", invariants, target)
    \/ \E type \in InvTypes, target \in Targets : ApplyCall("A1", type, target)
    \/ \E target \in Targets : ApplyAllCall("A1", target)
    \/ \E target \in Targets, required \in Requirements :
          MatchCall("A1", target, required)
    \/ \E target \in Targets : ToJsonCall("A1", target)

SpecInvariants == InitPortsOnly /\ [][NextInvariants]_vars

\* the invariant context under concurrent logical requests
NextContexts ==
    \/ \E ctx \in Contexts, target \in Targets : BindCall(ctx, "tenant", ctx, target)
    \/ \E ctx \in Contexts : PythonedaApplicationInit(ctx)
    \/ \E ctx \in Contexts, type \in InvTypes, target \in Targets :
          ApplyCall(ctx, type, target)
    \/ \E ctx \in Contexts, target \in Targets : ApplyAllCall(ctx, target)
    \/ \E ctx \in Contexts, target \in Targets :
          MatchCall(ctx, target, << [type |-> "tenant", value |-> "v1"] >>)

SpecContexts == InitPortsOnly /\ [][NextContexts]_vars

\* one Flow, its events added directly or through resume
InitFlowOnly == NoDispatch /\ InitPorts /\ InitRest /\ InitFlow /\ NoOrchestrator

NextFlow ==
    \/ \E event \in {None} \cup {Some(e) : e \in FlowEventPool} : AddEventCall(event)
    \/ \E event \in FlowEventPool, behaviour \in ContinueFlowBehaviours,
           returned \in ContinueFlowResults :
          ResumeCall(event, behaviour, returned)

SpecFlow == InitFlowOnly /\ [][NextFlow]_vars

\* a Flow that events of every class of the fixture are added to and looked
\* up in
NextFlowLookup ==
    \/ \E event \in {None} \cup {Some(e) : e \in FlowEventPool \cup KeyedEvents} :
          AddEventCall(event)
    \/ \E eventClass \in LookupClasses : FindLatestEventCall(eventClass)

SpecFlowLookup == InitFlowOnly /\ [][NextFlowLookup]_vars

\* the event emitter, its receivers registered and unregistered at any time
InitEmitterOnly ==
    /\ NoDispatch /\ InitPorts /\ NoCalls /\ NoFlow /\ NoOrchestrator /\ NoObjects
    /\ NoHolders /\ NoLookups
    /\ receivers = <<>>
    /\ emitPhase = "idle"
    /\ emitIdx = 1
    /\ emitStart = <<>>
    /\ accepted = <<>>

NextEmitter ==
    \/ \E receiver \in Receivers : RegisterReceiver(receiver)
    \/ \E receiver \in Receivers : UnregisterReceiver(receiver)
    \/ Emit
    \/ EmitResumes

SpecEmitter == InitEmitterOnly /\ [][NextEmitter]_vars

\* the orchestrator of the primary ports
InitOrchestratorOnly == NoDispatch /\ InitPorts /\ InitRest /\ NoFlow /\ InitOrchestrator

NextOrchestrator ==
    \/ AcceptInput
    \/ StartNext
    \/ AcceptReturns
    \/ AcceptRaises
    \/ AcceptInputReturns

SpecOrchestrator == InitOrchestratorOnly /\ [][NextOrchestrator]_vars

\* value objects constructed and compared
InitObjectsOnly ==
    /\ NoDispatch /\ InitPorts /\ NoCalls /\ NoFlow /\ NoOrchestrator
    /\ objects = <<>>
    /\ eqCall = NoEqCall
    /\ NoHolders /\ NoLookups /\ NoEmitter

NextObjects ==
    \/ \E cls \in ObjectClasses, id \in ObjectIds, payload \in Payloads :
          Construct(cls, id, payload)
    \/ \E a, b \in 1..Len(objects) : Compare(a, b)
    \/ \E a \in 1..Len(objects) : CompareWithNone(a)

SpecObjects == InitObjectsOnly /\ [][NextObjects]_vars

\* value objects with a @sensitive attribute and their representations
InitHoldersOnly ==
    /\ NoDispatch /\ InitPorts /\ NoCalls /\ NoFlow /\ NoOrchestrator /\ NoObjects
    /\ NoLookups /\ NoEmitter
    /\ holders = <<>>
    /\ reprCall = NoReprCall

NextHolders ==
    \/ \E id \in ObjectIds, name \in {"n1", "n2"}, pwd \in SensitiveValues :
          ConstructHolder(id, name, pwd)
    \/ \E a \in 1..Len(holders) : ObjectToDict(a)
    \/ \E a \in 1..Len(holders) : ObjectToJson(a)
    \/ \E a \in 1..Len(holders) : ObjectStr(a)

SpecHolders == InitHoldersOnly /\ [][NextHolders]_vars

(***************************************************************************)
(* Properties of the dispatch engine and the listener directory            *)
(***************************************************************************)
\* the last top-level accept has returned a list
Returned == stack = <<>> /\ outcome.kind = "returned" /\ events # <<>>

\* the last top-level accept has ended, by a return or by an exception
Ended == stack = <<>> /\ outcome.kind \in {"returned", "raised"} /\ events # <<>>

CurrentListenersFor(t) ==
    ListenersFor(listenersByEventClass, t, declaredPriority, abstract)

PositionIn(s, x) == CHOOSE i \in 1..Len(s) : s[i] = x

Occurrences(s, x) == Cardinality({i \in 1..Len(s) : s[i] = x})

\* C1: for every event E whose type has no registered listener unit,
\* accept(E) fails with UnsupportedEvent(E) instead of returning an empty list.
C1_UnsupportedEventRaised ==
    (Ended /\ CurrentListenersFor(events[1].type) = <<>>)
        => (outcome.kind = "raised" /\ outcome.exc = "UnsupportedEvent"
            /\ outcome.about = 1)

\* C2 as claimed: in the list returned by accept(E), every event of
\* generation n appears before every event of generation n+1.
C2_StrictGenerationOrder ==
    Returned =>
        \A i, j \in 1..Len(outcome.result) :
            events[outcome.result[j]].gen = events[outcome.result[i]].gen + 1
                => i < j

\* C2 as amended: the returned list holds every produced event once; the
\* events of generation 1 come before all events of later generations, and
\* every event comes before the events its own handlers produced.
C2_GenerationOneFirstAndParentsFirst ==
    Returned =>
        /\ \A e \in 2..Len(events) : Occurrences(outcome.result, e) = 1
        /\ \A i, j \in 1..Len(outcome.result) :
            LET a == outcome.result[i]
                b == outcome.result[j]
            IN  /\ (events[a].gen = 1 /\ events[b].gen > 1) => i < j
                /\ events[b].parent = a => i < j

\* a returned cascade three generations deep and two events wide
C2_Witness ==
    /\ Returned
    /\ \E i, j \in 1..Len(outcome.result) :
          /\ i < j
          /\ events[outcome.result[i]].gen = 3
          /\ events[outcome.result[j]].gen = 2

\* C3: during one accept(E) the handlers of the concrete units registered for
\* E's type are invoked in ascending order of priority (100 when undeclared).
C3_InvokedByAscendingPriority ==
    \A i, j \in 1..Len(invoked) :
        (i < j /\ invoked[i].ev = invoked[j].ev)
            => GetPriority(invoked[i].unit, declaredPriority)
                 <= GetPriority(invoked[j].unit, declaredPriority)

\* a unit of priority 1 invoked before a unit of priority 5 that was
\* registered first, and a unit of priority 100 (undeclared) invoked last
C3_Witness ==
    \E i, j \in 1..Len(invoked) :
        /\ i < j
        /\ invoked[i].ev = invoked[j].ev
        /\ GetPriority(invoked[i].unit, declaredPriority) = 1
        /\ GetPriority(invoked[j].unit, declaredPriority) \in {5, DefaultListenerPriority}
        /\ LET ls == listenersByEventClass[events[invoked[i].ev].type]
           IN  PositionIn(ls, invoked[j].unit) < PositionIn(ls, invoked[i].unit)

\* C4: when E1 has one listener whose handler returns E2 and E2's type has no
\* listener, accept(E1) raises UnsupportedEvent for E2 once E1's listeners
\* have all been invoked.
C4_UnsupportedCascadeEventRaised ==
    ( /\ Ended
      /\ Len(events) = 2
      /\ Len(CurrentListenersFor(events[1].type)) = 1
      /\ CurrentListenersFor(events[2].type) = <<>>
      /\ Len(invoked) = 1 /\ invoked[1].ev = 1 )
        => (outcome.kind = "raised" /\ outcome.exc = "UnsupportedEvent"
            /\ outcome.about = 2)

\* C5: however often a registration is processed, the unit is listed once
\* under the event type and its handler is invoked once per dispatched event.
C5_RegisteredOnce ==
    /\ \A t \in EventTypes, c \in Units :
          Occurrences(listenersByEventClass[t], c) <= 1
    /\ \A i, j \in 1..Len(invoked) :
          (invoked[i].ev = invoked[j].ev /\ invoked[i].unit = invoked[j].unit)
              => i = j

\* a registration that was processed twice (its event type is listed twice in
\* _event_listeners), for a unit that has a subclass, and whose handler ran
C5_Witness ==
    \E c \in Units, t \in EventTypes :
        /\ Occurrences(eventListeners[c], t) >= 2
        /\ \E s \in defined : Parent(s) = c
        /\ Occurrences(listenersByEventClass[t], c) = 1
        /\ \E i \in 1..Len(invoked) :
              invoked[i].unit = c /\ events[invoked[i].ev].type = t

(***************************************************************************)
(* Properties of the port registry                                         *)
(***************************************************************************)
\* the adapters mapped to the port of the latest call, by position
CalledAdapters == CandidatesOf(singleton[1], lastCall.port)

\* a resolution call has just returned
CallStep ==
    /\ <<lastCall, prevCall>>' # <<lastCall, prevCall>>
    /\ lastCall'.op # "none"

\* the adapter declares neither default_priority() nor priority()
Undeclared(a) == a.dp = None /\ a.p = None

\* C6 as claimed: resolve_all(port) never returns an adapter whose invariant
\* requirements do not match the values bound when it is called.
C6_OnlyMatchingAdaptersResolved ==
    [][ (CallStep /\ lastCall'.op = "resolve_all")
          => \A k \in 1..Len(lastCall'.items) :
                RequirementMet(CandidatesOf(singleton[1], lastCall'.port)[lastCall'.items[k].a])
      ]_vars

\* C6 as amended: resolve_all(port) returns every adapter mapped to the port,
\* whatever the invariant context binds, sorted by ascending priority.
C6_AllAdaptersResolvedSorted ==
    lastCall.op = "resolve_all" =>
        /\ Len(lastCall.items) = Len(CalledAdapters)
        /\ \A i \in 1..Len(CalledAdapters) :
              \E k \in 1..Len(lastCall.items) : lastCall.items[k] = Registered(i)
        /\ \A k, l \in 1..Len(lastCall.items) :
              k < l => lastCall.keys[lastCall.items[k].a] <= lastCall.keys[lastCall.items[l].a]

\* resolve_all returned two adapters, one of them requiring tenant v1 while the
\* tenant bound for all targets is v2
C6_Witness ==
    /\ lastCall.op = "resolve_all"
    /\ Len(lastCall.items) >= 2
    /\ Apply(values, "tenant", NoTarget) = Some("v2")
    /\ \E k \in 1..Len(lastCall.items) :
          CalledAdapters[lastCall.items[k].a].req = Some("v1")

\* C7 as claimed: the sort key of an adapter that declares a default priority
\* is that default priority.
C7_DefaultPriorityPreferred ==
    lastCall.op # "none" =>
        \A i \in 1..Len(CalledAdapters) :
            CalledAdapters[i].dp # None => lastCall.keys[i] = CalledAdapters[i].dp[1]

\* C7 as amended: priority() of an instance is the sort key whenever the
\* adapter declares priority() and can be instantiated; the default priority
\* is the key only otherwise, and -1 if there is none either.
C7_InstancePriorityPreferred ==
    lastCall.op # "none" =>
        \A i \in 1..Len(CalledAdapters) :
            LET a == CalledAdapters[i]
            IN  lastCall.keys[i] =
                    IF a.p # None /\ a.inst THEN a.p[1]
                    ELSE IF a.dp # None THEN a.dp[1]
                    ELSE -1

\* an adapter declaring both priorities was keyed by priority(), and one that
\* could not be instantiated by its default priority
C7_Witness ==
    /\ lastCall.op = "resolve_all"
    /\ \E i, j \in 1..Len(CalledAdapters) :
          LET a == CalledAdapters[i]
              b == CalledAdapters[j]
          IN  /\ a.dp # None /\ a.p # None /\ a.inst
              /\ a.dp # a.p /\ lastCall.keys[i] = a.p[1]
              /\ b.dp # None /\ b.p # None /\ ~b.inst
              /\ b.dp # b.p /\ lastCall.keys[j] = b.dp[1]

\* C8 as claimed: an adapter declaring no priority is ordered after every
\* candidate of non-negative priority and is not picked while one exists.
C8_UndeclaredLeastPreferred ==
    /\ lastCall.op = "resolve_all" =>
          \A k, l \in 1..Len(lastCall.items) :
              ( /\ Undeclared(CalledAdapters[lastCall.items[k].a])
                /\ ~Undeclared(CalledAdapters[lastCall.items[l].a])
                /\ lastCall.keys[lastCall.items[l].a] >= 0 ) => l < k
    /\ (lastCall.op = "resolve_first" /\ lastCall.kind = "one") =>
          ( (\E i \in 1..Len(CalledAdapters) : ~Undeclared(CalledAdapters[i]))
                => ~Undeclared(CalledAdapters[lastCall.items[1].a]) )

\* C8 as amended: an adapter declaring no priority has sort key -1 and is
\* ordered before every candidate of non-negative priority; resolve_first
\* never picks a candidate of non-negative priority while such an adapter
\* is mapped.
C8_UndeclaredMostPreferred ==
    /\ lastCall.op = "resolve_all" =>
          \A k, l \in 1..Len(lastCall.items) :
              ( /\ Undeclared(CalledAdapters[lastCall.items[k].a])
                /\ lastCall.keys[lastCall.items[l].a] >= 0 ) => k < l
    /\ (lastCall.op = "resolve_first" /\ lastCall.kind = "one") =>
          ( (\E i \in 1..Len(CalledAdapters) : Undeclared(CalledAdapters[i]))
                => lastCall.keys[lastCall.items[1].a] < 0 )

\* resolve_first picked an adapter without priority that is mapped after an
\* adapter with a declared, non-negative priority
C8_Witness ==
    /\ lastCall.op = "resolve_first"
    /\ lastCall.kind = "one"
    /\ Undeclared(CalledAdapters[lastCall.items[1].a])
    /\ \E i \in 1..Len(CalledAdapters) :
          /\ i < lastCall.items[1].a
          /\ ~Undeclared(CalledAdapters[i])
          /\ lastCall.keys[i] >= 0

\* C9: two calls of resolve_all(port) on the same mapping return the same
\* candidates in the same order, and candidates of equal priority keep their
\* mapping order.
C9_Deterministic ==
    /\ ( /\ lastCall.op = "resolve_all"
         /\ prevCall.op = "resolve_all"
         /\ lastCall.port = prevCall.port ) => lastCall.items = prevCall.items
    /\ lastCall.op = "resolve_all" =>
          \A k, l \in 1..Len(lastCall.items) :
              ( /\ k < l
                /\ lastCall.keys[lastCall.items[k].a] = lastCall.keys[lastCall.items[l].a] )
                    => lastCall.items[k].a < lastCall.items[l].a

\* resolve_all was called twice on a port with two adapters of equal priority
C9_Witness ==
    /\ lastCall.op = "resolve_all"
    /\ prevCall.op = "resolve_all"
    /\ lastCall.port = prevCall.port
    /\ \E i, j \in 1..Len(CalledAdapters) :
          /\ i < j
          /\ lastCall.keys[i] = lastCall.keys[j]
          /\ CalledAdapters[i] # CalledAdapters[j]

\* C10 as claimed: resolve(port) and resolve_first(port) return the same.
C10_ResolveEqualsResolveFirst ==
    ( /\ prevCall.op = "resolve"
      /\ lastCall.op = "resolve_first"
      /\ lastCall.port = prevCall.port )
        => (lastCall.kind = prevCall.kind /\ lastCall.items = prevCall.items)

\* C10 as amended: resolve(port) is the list of all adapters of
\* resolve_all(port), in that order, each instantiated if it is mapped as a
\* class and handed out as it is otherwise; resolve_first(port) is the first
\* element of resolve(port), or absent when that list is empty.
C10_ResolveFirstIsHeadOfResolve ==
    /\ lastCall.op = "resolve" =>
          LET all == ResolveAll(singleton[1], lastCall.port)
          IN  /\ lastCall.kind = "list"
              /\ Len(lastCall.items) = Len(all)
              /\ \A k \in 1..Len(all) :
                    LET a == CalledAdapters[all[k]]
                    IN  /\ lastCall.items[k].a = all[k]
                        /\ lastCall.items[k].form = "registered" <=> ~a.cls
                        /\ lastCall.items[k].form = "instantiated" <=> (a.cls /\ a.inst)
    /\ ( /\ prevCall.op = "resolve"
         /\ lastCall.op = "resolve_first"
         /\ lastCall.port = prevCall.port ) =>
          IF prevCall.items = <<>>
          THEN lastCall.kind = "absent" /\ lastCall.items = <<>>
          ELSE lastCall.kind = "one" /\ lastCall.items = <<prevCall.items[1]>>

\* resolve returned an instantiated class and a pre-built instance, and
\* resolve_first then returned the first of the two
C10_Witness ==
    /\ prevCall.op = "resolve"
    /\ lastCall.op = "resolve_first"
    /\ lastCall.port = prevCall.port
    /\ Len(prevCall.items) >= 2
    /\ \E k, l \in 1..Len(prevCall.items) :
          prevCall.items[k].form = "instantiated" /\ prevCall.items[l].form = "registered"
    /\ lastCall.kind = "one"

\* C11: resolving a port that has no entry in the mappings, the registry never
\* initialised included, yields an empty list from resolve_all and resolve and
\* nothing from resolve_first, never an error
C11_UnmappedYieldsEmptyNeverError ==
    (instanceCall.op # "none" /\ ~instanceCall.mapped)
        => /\ instanceCall.kind \in {"list", "absent"}
           /\ instanceCall.items = <<>>


\* what a target holds for a type itself, no fallback
Direct(vals, type, target) ==
    IF vals[target] = None THEN None ELSE vals[target][1][type]

\* the step binds the type for the target again
Rebinds(call, type, target) ==
    \/ call.op = "bind" /\ call.type = type /\ call.target = target
    \/ call.op = "bind_all" /\ call.target = target

\* C12: within one execution context, after bind(T, v, S) apply(T, S) returns
\* v until T is bound again for S, for every type, value and target, the
\* target None included
C12_BoundUntilRebound ==
    [][\A type \in InvTypes, target \in Targets :
          /\ (invCall'.op = "bind" /\ invCall'.type = type /\ invCall'.target = target)
                => Apply(values', type, target) = invCall'.value
          /\ (Direct(values, type, target) # None /\ ~Rebinds(invCall', type, target))
                => Apply(values', type, target) = Direct(values, type, target)]_vars

\* the binding a lookup with a fallback per type would find
PerTypeFallback(vals, type, target) ==
    IF Direct(vals, type, target) # None THEN Direct(vals, type, target)
    ELSE Direct(vals, type, NoTarget)

\* C13: apply(T, S) returns the binding of T for S, else the binding of T for
\* all targets, also when S holds bindings of other types, and nothing only if
\* neither binds T; apply_all follows the same fallback
C13_FallsBackPerType ==
    /\ invCall.op = "apply"
          => invCall.result = PerTypeFallback(values, invCall.type, invCall.target)
    /\ invCall.op = "apply_all"
          => \A type \in InvTypes :
                invCall.all[type] = PerTypeFallback(values, type, invCall.target)

\* every required invariant has a bound value that satisfies it
AllRequiredSatisfied(vals, target, required) ==
    \A k \in 1..Len(required) :
        LET bound == Apply(vals, required[k].type, target)
        IN  bound # None /\ InvariantMatch(bound[1], required[k].value)

\* C15: match(target, required) is true if and only if every required
\* invariant has a currently bound value that satisfies it: true when
\* required is empty, false when required names an invariant that is not bound
C15_MatchIffAllRequiredSatisfied ==
    invCall.op = "match"
        => invCall.verdict =
              IF AllRequiredSatisfied(values, invCall.target, invCall.required)
              THEN "true" ELSE "false"


\* everything the logical request ctx can observe of the bindings
Observations(ctx) ==
    [apply |-> [type \in InvTypes, target \in Targets |->
                   IF ValuesOf(ctx) = None THEN None
                   ELSE Apply(ValuesOf(ctx)[1], type, target)],
     apply_all |-> [target \in Targets |->
                   IF ValuesOf(ctx) = None THEN NoBindings
                   ELSE ApplyAll(ValuesOf(ctx)[1], target)],
     match |-> [target \in Targets, required \in Requirements |->
                   Match(ValuesOf(ctx), target, required)]]

\* C14: a bind performed by one logical request, thread or cooperative task,
\* is never observable through apply, apply_all or match by another one
C14_ConfinedToLogicalRequest ==
    [][\A ctx \in Contexts :
          (invCall'.op = "bind" /\ invCall'.ctx # ctx)
              => Observations(ctx)' = Observations(ctx)]_vars

\* C14 as the code has it: a bind performed on one thread is never observable
\* from a logical request running on another thread
C14_ConfinedToThread ==
    [][\A ctx \in Contexts :
          (invCall'.op = "bind" /\ Thread[invCall'.ctx] # Thread[ctx])
              => Observations(ctx)' = Observations(ctx)]_vars

\* the request on the other thread looked up a type that the constructing
\* thread has bound, and found nothing
C14_Witness ==
    /\ invCall.op = "apply"
    /\ invCall.ctx = "B"
    /\ invCall.result = None
    /\ Apply(values, invCall.type, invCall.target) # None


\* the incoming chain continues the recorded chain: the two are identical, or
\* they share an id, the shared ids are in the same relative order in both, and
\* the incoming chain holds an id the recorded chain does not
ValidContinuation(incoming, chain) ==
    \/ incoming = chain
    \/ /\ \E i \in 1..Len(incoming) : Contains(chain, incoming[i])
       /\ \A i, j \in 1..Len(incoming) :
             (i < j /\ Contains(chain, incoming[i]) /\ Contains(chain, incoming[j]))
                 => PositionIn(chain, incoming[i]) < PositionIn(chain, incoming[j])
       /\ \E i \in 1..Len(incoming) : ~Contains(chain, incoming[i])

\* C16: resume(event) invokes continue_flow(event), and returns what it
\* returns, exactly when [event.id] + event.previous_event_ids is a valid
\* continuation of the recorded chain; for the chain [a, b] an event c with
\* previous ids [b] is accepted and an event with previous ids [z] is rejected
C16_ResumesExactlyValidContinuations ==
    flowCall.op = "resume"
        => /\ flowCall.invoked <=> ValidContinuation(flowCall.incoming, flowCall.chain)
           /\ flowCall.invoked <=> flowCall.result # None
           /\ (flowCall.chain = <<"a", "b">> /\ flowCall.incoming = <<"c", "b">>)
                 => flowCall.invoked
           /\ (flowCall.chain = <<"a", "b">> /\ flowCall.incoming = <<"e", "z">>)
                 => ~flowCall.invoked

\* the Flow with chain [a, b] was resumed with the event c whose previous id is b
C16_Witness ==
    /\ flowCall.op = "resume"
    /\ flowCall.chain = <<"a", "b">>
    /\ flowCall.incoming = <<"c", "b">>
    /\ flowCall.invoked

\* C17: when the continuation check fails, resume(event) yields no result,
\* does not invoke continue_flow, and leaves the event list and first_event
\* unchanged
C17_FailedCheckChangesNothing ==
    [][(flowCall'.op = "resume"
          /\ ~ValidContinuation(flowCall'.incoming, flowCall'.chain))
        => /\ ~flowCall'.invoked
           /\ flowCall'.result = None
           /\ flowEvents' = flowEvents
           /\ flowFirstEvent' = flowFirstEvent]_vars

\* a Flow holding events was resumed with an event it does not hold, and the
\* check failed
C17_Witness ==
    /\ flowCall.op = "resume"
    /\ ~flowCall.invoked
    /\ ~ValidContinuation(flowCall.incoming, flowCall.chain)
    /\ Len(flowEvents) >= 2
    /\ ~flowCall.recorded

\* the resumed event was recorded already and its chain holds no id new to the Flow
AlreadyRecorded ==
    /\ flowCall.op = "resume"
    /\ flowCall.recorded
    /\ Range(flowCall.incoming) \subseteq Range(flowCall.chain)

\* C18: for an event the Flow has already recorded, whose chain contributes no
\* id new to the Flow, resume does not invoke continue_flow again and does not
\* add the event a second time
C18_NoSecondAbsorption ==
    AlreadyRecorded
        => /\ ~flowCall.invoked
           /\ Occurrences(flowEvents, flowCall.event[1]) = 1

\* C18 as the code has it: continue_flow is invoked again exactly when the
\* incoming chain is identical to the recorded chain; the event is never added
\* a second time
C18_SecondInvocationOnlyIfIdentical ==
    AlreadyRecorded
        => /\ flowCall.invoked <=> flowCall.incoming = flowCall.chain
           /\ Occurrences(flowEvents, flowCall.event[1]) = 1

\* a recorded event whose chain is the recorded chain was resumed, and
\* continue_flow was invoked again
C18_Witness ==
    /\ AlreadyRecorded
    /\ flowCall.incoming = flowCall.chain
    /\ flowCall.invoked
    /\ Len(flowEvents) >= 2

\* first_event is the earliest event added and never changes once set
FirstEventFixed ==
    /\ flowFirstEvent # None => flowFirstEvent' = flowFirstEvent
    /\ flowEvents' # <<>> => flowFirstEvent' = Some(Last(flowEvents'))

\* C19: first_event is the earliest non-null event ever added and never
\* changes once set, and every other event of the list was added only after
\* being validated as a continuation of the chain
C19_GrowsOnlyByValidatedEvents ==
    [][/\ FirstEventFixed
       /\ (flowEvents' # flowEvents /\ flowEvents # <<>>)
             => (flowCall'.op = "resume" /\ flowCall'.invoked)]_vars

\* C19 as the code has it: first_event is fixed, and the list grows only at
\* its front, by an event it does not contain, either through add_event called
\* directly, which validates nothing, or through a resume whose check passed
C19_FirstFixedListGrowsAtFront ==
    [][/\ FirstEventFixed
       /\ flowEvents' # flowEvents
             => /\ \E e \in FlowEventPool :
                      flowEvents' = <<e>> \o flowEvents /\ ~EventIn(e, flowEvents)
                /\ \/ flowCall'.op = "add_event"
                   \/ flowCall'.op = "resume" /\ flowCall'.invoked]_vars

\* add_event was called directly with an event that is no continuation of the
\* chain, and the event was recorded
C19_Witness ==
    /\ flowCall.op = "add_event"
    /\ Len(flowCall.chain) >= 1
    /\ Len(flowEvents) = Len(flowCall.chain) + 1
    /\ ~ValidContinuation(IncomingIds(flowEvents[1]), flowCall.chain)
    /\ flowFirstEvent = Some(Last(flowEvents))


\* the port at position k of started
StartedKind(k) == primaryPorts[started[k]]

\* C20: the orchestrator starts the registered entry points one at a time in
\* ascending order of priority, 100 for a port that declares none, and never
\* starts an entry point before the previous one has returned or failed
C20_OneAtATimeByAscendingPriority ==
    /\ [](/\ \A k, l \in 1..Len(started) :
                k < l => /\ started[k] # started[l]
                         /\ DelegatePriority(StartedKind(k)) <= DelegatePriority(StartedKind(l))
          /\ \A k \in 1..Len(started) :
                StartedKind(k).priority = None => DelegatePriority(StartedKind(k)) = 100
          /\ \A k \in 1..Len(started), i \in 1..Len(primaryPorts) :
                DelegatePriority(primaryPorts[i]) < DelegatePriority(StartedKind(k))
                    => Contains(started, i)
          /\ Len(finished) = Len(started) - (IF running # None THEN 1 ELSE 0)
          /\ \A k \in 1..Len(finished) : finished[k].port = started[k])
    /\ [][started' # started
            => /\ running = None
               /\ Len(finished) = Len(started)
               /\ \A k \in 1..Len(finished) : finished[k].how = "returned"]_vars

\* three ports were started in an order that is not the order they were found
\* in, one of them with the default priority, and the last one is still running
C20_Witness ==
    /\ Len(started) = 3
    /\ started # <<1, 2, 3>>
    /\ \E k \in 1..Len(started) : StartedKind(k).priority = None
    /\ running # None
    /\ Len(finished) = 2


\* C30: to_json(target), and str(invariants), which is to_json(None), leave
\* every binding unchanged: apply(T, S) returns the same invariant before and
\* after the call
C30_ToJsonLeavesBindingsUnchanged ==
    [][invCall'.op = "to_json"
        => \A type \in InvTypes, target \in Targets :
              Apply(values', type, target) = Apply(values, type, target)]_vars

(***************************************************************************)
(* Properties of the dispatch engine over an edited directory              *)
(***************************************************************************)
\* the listeners the frame has already been through
Passed(f) == IF f.pc = "listeners" THEN f.i - 1 ELSE Len(f.ls)

InvokedFor(ev, unit) ==
    \E i \in 1..Len(invoked) : invoked[i].ev = ev /\ invoked[i].unit = unit

C22_EqualIffSameIdentifier ==
    eqCall.op = "eq"
        => (eqCall.eq <=> objects[eqCall.a].id = objects[eqCall.b].id)

\* C28: value objects that compare equal have equal hashes
C28_EqualImpliesEqualHash ==
    (eqCall.op = "eq" /\ eqCall.eq) => eqCall.hashA = eqCall.hashB

\* C23: no representation of a value object (to_dict, to_json, str) shows the
\* value of a @sensitive attribute, whatever its type: the entry reads
\* "[hidden]", and two objects that differ only in the sensitive value have the
\* same representations
C23_SensitiveNeverRevealed ==
    /\ reprCall.op # "none"
          => /\ reprCall.dict.pwd = <<Hidden>>
             /\ ~Contains(reprCall.text, holders[reprCall.a].pwd.content)
    /\ \A i, j \in 1..Len(holders) :
          (holders[i].id = holders[j].id /\ holders[i].name = holders[j].name)
              => /\ ToDict(holders[i]) = ToDict(holders[j])
                 /\ JsonDumps(ToDict(holders[i])) = JsonDumps(ToDict(holders[j]))

(***************************************************************************)
(* Termination of the dispatch engine                                      *)
(***************************************************************************)
\* the events of the cascade that no handler answered with an event
Childless == {e \in 1..Len(events) : \A c \in 1..Len(events) : events[c].parent # e}

\* C24: an accept that has started ends (the cascade of the model is finite);
\* when it returns, every event of the cascade has been dispatched to all its
\* listeners, the generations that produced no event were not followed by any
\* further dispatch, and the list returned holds each event the handlers
\* returned, once
C24_FiniteCascadeTerminates ==
    /\ (stack # <<>>) ~> Ended
    /\ [](Returned =>
            /\ Len(outcome.result) = Len(events) - 1
            /\ Range(outcome.result) = 2..Len(events)
            /\ \A i \in 1..Len(invoked) : invoked[i].ev \in 1..Len(events)
            /\ \A e \in 1..Len(events) :
                  Cardinality({i \in 1..Len(invoked) : invoked[i].ev = e})
                      <= Len(listenersByEventClass[events[e].type]))

\* an accept returned after a cascade of two generations, the last of which
\* returned no event although it had a listener
C24_Witness ==
    /\ Returned
    /\ \E e \in Childless :
          /\ events[e].gen = 2
          /\ \E i \in 1..Len(invoked) : invoked[i].ev = e

(***************************************************************************)
(* Inheritance of handlers in the listener directory                       *)
(***************************************************************************)
\* C25: once the subclass S of P is defined, for every event type T that P
\* declares a handler for, listeners_for(T) contains S and the handler of S for
\* T is P's
C25_SubclassInheritsRegistration ==
    "S" \in defined
        => \A t \in Range(declares["P"]) :
              /\ Contains(CurrentListenersFor(t), "S")
              /\ ListenMethodFor(listenerMethods, "S", t) = Func("P", t)

\* C25 (amended): S is listed under T and its handler is P's; listeners_for(T)
\* contains S exactly when S is not abstract
C25_SubclassInheritsRegistrationUnlessAbstract ==
    "S" \in defined
        => \A t \in Range(declares["P"]) :
              /\ Contains(listenersByEventClass[t], "S")
              /\ Contains(CurrentListenersFor(t), "S") <=> ~abstract["S"]
              /\ ListenMethodFor(listenerMethods, "S", t) = Func("P", t)

\* the concrete subclass S, which declares no handler for E1 itself, was
\* dispatched an E1 event and P's handler ran for it
C25_Witness ==
    /\ "S" \in defined
    /\ ~abstract["S"]
    /\ ~Contains(declares["S"], "E1")
    /\ Contains(CurrentListenersFor("E1"), "S")
    /\ \E i \in 1..Len(invoked) :
          /\ invoked[i].unit = "S"
          /\ events[invoked[i].ev].type = "E1"
          /\ invoked[i].fn = Func("P", "E1")

(***************************************************************************)
(* Properties of the Flow's list and of its lookup                         *)
(***************************************************************************)
\* the events of the class in the list, the most recently added first
OfClass(evts, eventClass) == SelectSeq(evts, LAMBDA e : IsEventOfClass(e, eventClass))

\* C26: find_latest_event(C) returns the most recently added of the Flow's
\* events of class C, or nothing when the Flow holds none
C26_FindsMostRecentOfClass ==
    findCall.op = "find_latest_event"
        => LET candidates == OfClass(flowEvents, findCall.eventClass)
           IN  findCall.result
                 = IF Len(candidates) = 0 THEN None ELSE Some(candidates[1])

\* C27: add_event of an event whose id the list does not hold records it at
\* the front, add_event of an event whose id it holds changes nothing, and the
\* last element of the list is first_event
C27_OneEntryPerAddedId ==
    [][(flowCall'.op = "add_event" /\ flowCall'.event # None)
        => LET e == flowCall'.event[1]
           IN  /\ IF Contains(MyEventIds(TheFlow), EventId[e])
                  THEN flowEvents' = flowEvents
                  ELSE flowEvents' = <<e>> \o flowEvents
               /\ Some(Last(flowEvents')) = flowFirstEvent']_vars

(***************************************************************************)
(* Properties of the event emitter                                         *)
(***************************************************************************)
\* C29: when emit has ended, accept was called exactly once on each receiver
\* that was registered when emit was called, in the order of registration,
\* whatever was registered or unregistered meanwhile; and no receiver is
\* stored twice
C29_EmitReachesEveryReceiverOnce ==
    /\ emitPhase = "done"
          => /\ \A r \in Range(emitStart) : Occurrences(accepted, r) = 1
             /\ SelectSeq(accepted, LAMBDA r : Contains(emitStart, r)) = emitStart
    /\ \A r \in Receivers : Occurrences(receivers, r) <= 1

====
